---- MODULE Spec2Model ----
(***************************************************************************)
(* Sahayak: the prepaid wallet ledger (src/src/wallet/ledger.py) and the   *)
(* execution orchestrator (src/src/core/orchestrator.py), run by several   *)
(* database sessions (units of work, src/src/db/database.py) against one   *)
(* users table and one ledger_entries table.                               *)
(*                                                                         *)
(* Database semantics taken from the statements the code issues:           *)
(*  - SELECT ... FOR UPDATE (with_for_update) takes the row lock of the    *)
(*    user row; it waits while another session holds it and then returns   *)
(*    the latest committed row; the lock is held until the session's       *)
(*    transaction commits or rolls back;                                   *)
(*  - a session sees the committed tables plus its own unflushed and       *)
(*    uncommitted changes; other sessions see them only after commit.      *)
(***************************************************************************)
EXTENDS Integers, Sequences, FiniteSets, TLC

\* ------------------------------------------------------------------ bounds
NumUsers == 2
NumSessions == 2
MaxTxn == 2
MaxOps == 3
MaxOrders == 2
MaxChunks == 4
MaxClock == 8
MaxEvents == 3
MaxPlaced == 2

\* --------------------------------------------------------------- constants
MAX_TRANSACTION_AMOUNT == 2000
SeedBalance == 100000

Users == 1..NumUsers
Sessions == 1..NumSessions
NoSession == 0
NoTxn == 0
SeedTxn == 0
TxnIds == 1..MaxTxn

\* amounts in paise: 600 rupees (within the cap) and 2500 rupees (above it)
Amounts == {60000, 250000}
\* a caregiver top-up of 2000 rupees
CreditAmounts == {200000}
PlaceOutcomes == {"success", "failure", "raise"}

VARIABLES users, ledger, rowLock, wrows, wentries, pc, call, run, nextTxn,
          nOps, nOrders, ev, probe, reply, pending, events, detector,
          voice, pharmacy, sessionStore, flow, proto, outbox

vars == <<users, ledger, rowLock, wrows, wentries, pc, call, run, nextTxn,
          nOps, nOrders, ev, probe, reply, pending, events, detector,
          voice, pharmacy, sessionStore, flow, proto, outbox>>

\* the conversation side: the arguments a rule is tried on, the answer of
\* the last conversation step and the confirmation context each caller holds
front == <<probe, reply, pending, events, detector, voice, pharmacy,
           sessionStore, flow, proto, outbox>>

\* the objects beside the wallet and the conversation: the event list of a
\* call log packet, a silence detector, a voice processor reading a stream,
\* the mock pharmacy and the store of confirmation contexts by call id
devices == <<events, detector, voice, pharmacy, sessionStore, flow, proto,
             outbox>>

\* a clarification flow, the prototype service and the messages handed to
\* the notification service
aside == <<flow, proto, outbox>>

\* the wallet side: tables, units of work and the runs of orders
back == <<users, ledger, rowLock, wrows, wentries, pc, call, run, nextTxn,
          nOps, nOrders, ev>>

\* ------------------------------------------------------------ data shapes
Row(c, l) == [current_balance |-> c, locked_balance |-> l]

ZeroRow == Row(0, 0)

LedgerEntry(txn, u, amt, type, bal) ==
    [transaction_id |-> txn, user_id |-> u, amount |-> amt,
     transaction_type |-> type, balance_after |-> bal]

NoCall == [user |-> 0, amount |-> 0, txn |-> NoTxn]

NoResult == [returned |-> FALSE, success |-> FALSE, order_id |-> 0,
             new_balance |-> -1, error |-> "none",
             voice_response |-> "none"]

NoRun == [user |-> 0, total |-> 0, transaction_id |-> NoTxn,
          order_number |-> 0, execution_status |-> "NONE",
          external_order_id |-> 0, pharmacy |-> "none",
          pharmacy_order_id |-> 0, debit_txn |-> NoTxn,
          refund_txn |-> NoTxn, avail0 |-> 0, rivals |-> {},
          pre |-> ZeroRow, trace |-> <<>>, result |-> NoResult,
          log |-> <<>>]

\* OrchestratorResult.confirmation_context of an order confirmation
NoContext == [type |-> "none", user_id |-> 0, total_price |-> 0]

NoIntent ==
    [intent_type |-> "UNKNOWN", confidence_score |-> 0,
     emergency_detected |-> FALSE, clarification_needed |-> "none"]

NoQuote == [matched |-> FALSE, available |-> FALSE, total_price |-> 0]

NoSaid == [speech |-> <<>>, digits |-> "", call_sid |-> "CA1"]

\* a users row as the channels read it: the key, the opaque internal id and
\* the personal data
NoProfile ==
    [id |-> 0, internal_id |-> <<>>, full_name |-> "none",
     phone_number |-> <<>>, address_line1 |-> "none", city |-> "none",
     pincode |-> "none", preferred_language |-> "none",
     medicine_history |-> <<>>]

\* the dict handed to parse_intent as user_context; a key that is not in the
\* dict is "absent", or the empty tuple where the value is a tuple
UserContext(internal_id, medicine_history, address, full_address, language) ==
    [internal_id |-> internal_id, medicine_history |-> medicine_history,
     address |-> address, full_address |-> full_address,
     preferred_language |-> language]

NoUserContext == UserContext(<<>>, <<>>, "absent", <<>>, "absent")

\* what a turn sent to the reasoning service, if anything: the transcript
\* and the medicine history put in the prompt, and the context the prompt
\* was built from
NoLlm ==
    [called |-> FALSE, transcript |-> <<>>, medicine_history |-> <<>>,
     user_context |-> NoUserContext]

\* what a request to a channel carried and found: the call id, the row of
\* the sender (if registered), the type of a message, the words heard or
\* written, whether the provider answers and whether the reasoning service
\* is configured ("unconfigured") and answers ("ok") or how it fails
NoRequest ==
    [call_sid |-> "none", profile |-> NoProfile, registered |-> FALSE,
     type |-> "none", transcript |-> <<>>, network |-> FALSE,
     provider |-> "unconfigured"]

\* a phone number as it is written: what stands before the ten digits, the
\* ten digits, and whether it is written with spaces or hyphens
Phone(prefix, digits, spaced) ==
    [prefix |-> prefix, digits |-> digits, spaced |-> spaced]

\* no phone number: None, or a column that is NULL
NoPhone == Phone("", <<>>, FALSE)

\* TopUpRequest, with the transaction id of an accepted top-up
NoTopUp ==
    [phone_number |-> NoPhone, amount |-> 0, caregiver_phone |-> NoPhone,
     transaction_id |-> 0]

\* the answer of a conversation step: the OrchestratorResult fields, the
\* collaborators the step called and the verdict of a rule, kept with what
\* the step was given (user, intent and quote, or what the caller said)
NoReply ==
    [op |-> "none", success |-> FALSE, voice_response |-> "none",
     requires_confirmation |-> FALSE, context |-> NoContext,
     new_balance |-> -1, calls |-> {}, valid |-> FALSE, error |-> "none",
     user |-> 0, intent |-> NoIntent, quote |-> NoQuote, said |-> NoSaid,
     request |-> NoRequest, llm |-> NoLlm, status |-> "none",
     topup |-> NoTopUp, parsed |-> NoIntent]

NoProbe ==
    [amount |-> 0, current_balance |-> 0, locked_balance |-> 0,
     daily_spent |-> 0, intent |-> NoIntent]

NoEv == [op |-> "none", sess |-> NoSession, user |-> 0, amount |-> 0,
         txn |-> NoTxn, outcome |-> "none"]

Ev(op, s, u, amt, txn, outcome) ==
    [op |-> op, sess |-> s, user |-> u, amount |-> amt, txn |-> txn,
     outcome |-> outcome]

\* ----------------------------------------------------- the session's view
\* the user row as session s reads it: its own working copy while it holds
\* the row lock, the committed row otherwise
View(s, u) == IF rowLock[u] = s THEN wrows[s][u] ELSE users[u]

\* the ledger rows session s can select: committed rows and its own
LedgerView(s) == ledger \o wentries[s]

\* mutant: the select is issued without FOR UPDATE and never waits
CanLockRow_NoWait(s, u) == TRUE

\* SELECT ... FOR UPDATE returns at once iff no other session holds the row
CanLockRow(s, u) == rowLock[u] \in {s, NoSession}

\* ------------------------------------------------- WalletLedger: pure parts
max_transaction == MAX_TRANSACTION_AMOUNT * 100

\* mutant: the amount is converted to rupees but the cap is left in paise
ExceedsLimit_Units(amount) == amount \div 100 > max_transaction

ExceedsLimit(amount) == amount > max_transaction

available(row) == row.current_balance - row.locked_balance

\* mutant: the funds already locked are not taken off the balance
Insufficient_IgnoresLocked(row, amount) == row.current_balance < amount

Insufficient(row, amount) == available(row) < amount

\* mutant: the lock already takes the money
LockedRow_Debits(row, amount) ==
    [row EXCEPT !.current_balance = @ - amount,
                !.locked_balance = @ + amount]

LockedRow(row, amount) ==
    [row EXCEPT !.locked_balance = @ + amount]

\* mutant: the debit forgets to release the lock
DebitedRow_KeepsLock(row, amount) ==
    [row EXCEPT !.current_balance = @ - amount]

\* mutant: the debit releases the lock but never takes the money
DebitedRow_NoDebit(row, amount) ==
    [row EXCEPT !.locked_balance = @ - amount]

DebitedRow(row, amount) ==
    [row EXCEPT !.current_balance = @ - amount,
                !.locked_balance = @ - amount]

\* mutant: the refund pays the amount back on top of releasing the lock
RefundedRow_Credits(row, amount) ==
    [row EXCEPT !.current_balance = @ + amount,
                !.locked_balance = @ - amount]

RefundedRow(row, amount) ==
    [row EXCEPT !.locked_balance = @ - amount]

\* mutant: the top-up is added in rupees to a balance kept in paise
CreditedRow_Rupees(row, amount) ==
    [row EXCEPT !.current_balance = @ + amount \div 100]

CreditedRow(row, amount) ==
    [row EXCEPT !.current_balance = @ + amount]

\* mutant: the LOCK row is selected by transaction id alone
LockEntries_AnyUser(s, txn, u) ==
    SelectSeq(LedgerView(s),
              LAMBDA e : /\ e.transaction_id = txn
                         /\ e.transaction_type = "LOCK")

\* the LOCK rows a select by (transaction_id, LOCK, user_id) returns
LockEntries(s, txn, u) ==
    SelectSeq(LedgerView(s),
              LAMBDA e : /\ e.transaction_id = txn
                         /\ e.transaction_type = "LOCK"
                         /\ e.user_id = u)

\* --------------------------------------------- WalletLedger: the operations
\* each takes the session, leaves pc, call and run to its caller, and sets
\* ev to what the call did

\* mutant: the new ledger row replaces the rows the session wrote before
Flush_Overwrites(s, u, row, entry) ==
    /\ wrows' = [wrows EXCEPT ![s][u] = row]
    /\ wentries' = [wentries EXCEPT ![s] = <<entry>>]
    /\ rowLock' = [rowLock EXCEPT ![u] = s]

\* writes of one flushed operation: the new user row and one ledger row
Flush(s, u, row, entry) ==
    /\ wrows' = [wrows EXCEPT ![s][u] = row]
    /\ wentries' = [wentries EXCEPT ![s] = Append(@, entry)]
    /\ rowLock' = [rowLock EXCEPT ![u] = s]

\* check_and_lock up to the savepoint: the hard cap and the transaction id
check_and_lock_limit(s, u, amount) ==
    /\ ExceedsLimit(amount)
    /\ ev' = Ev("check_and_lock", s, u, amount, NoTxn, "TransactionLimitError")
    /\ UNCHANGED <<users, ledger, rowLock, wrows, wentries, nextTxn>>

\* check_and_lock inside the savepoint, once the row lock is granted; when
\* the balance does not cover the amount the savepoint is rolled back: no
\* write was made in it and a row lock taken in it is given back
check_and_lock_locked(s, u, amount, txn) ==
    /\ CanLockRow(s, u)
    /\ LET user == View(s, u) IN
       IF Insufficient(user, amount)
       THEN /\ ev' = Ev("check_and_lock", s, u, amount, txn,
                        "InsufficientBalanceError")
            /\ UNCHANGED <<rowLock, wrows, wentries>>
       ELSE /\ Flush(s, u, LockedRow(user, amount),
                     LedgerEntry(txn, u, amount, "LOCK",
                                 user.current_balance))
            /\ ev' = Ev("check_and_lock", s, u, amount, txn, "ok")
    /\ UNCHANGED <<users, ledger>>

\* the row session s will read once the statement it is running has run
ViewNext(s, u) == IF rowLock'[u] = s THEN wrows'[s][u] ELSE users'[u]

confirm_debit(s, txn, u) ==
    LET found == LockEntries(s, txn, u) IN
    /\ IF found = <<>>
       THEN /\ ev' = Ev("confirm_debit", s, u, 0, txn, "WalletError")
            /\ UNCHANGED <<rowLock, wrows, wentries>>
       ELSE /\ CanLockRow(s, u)
            /\ LET user == View(s, u)
                   amount == found[1].amount
               IN /\ Flush(s, u, DebitedRow(user, amount),
                           LedgerEntry(txn, u, amount, "DEBIT",
                                       user.current_balance - amount))
                  /\ ev' = Ev("confirm_debit", s, u, amount, txn, "ok")
    /\ UNCHANGED <<users, ledger, nextTxn>>

auto_refund(s, txn, u) ==
    LET found == LockEntries(s, txn, u) IN
    /\ IF found = <<>>
       THEN /\ ev' = Ev("auto_refund", s, u, 0, txn, "WalletError")
            /\ UNCHANGED <<rowLock, wrows, wentries>>
       ELSE /\ CanLockRow(s, u)
            /\ LET user == View(s, u)
                   amount == found[1].amount
               IN /\ Flush(s, u, RefundedRow(user, amount),
                           LedgerEntry(txn, u, amount, "REFUND",
                                       user.current_balance))
                  /\ ev' = Ev("auto_refund", s, u, amount, txn, "ok")
    /\ UNCHANGED <<users, ledger, nextTxn>>

add_credit(s, u, amount) ==
    /\ CanLockRow(s, u)
    /\ LET user == View(s, u)
           new_row == CreditedRow(user, amount)
       IN /\ Flush(s, u, new_row,
                   LedgerEntry(nextTxn, u, amount, "CREDIT",
                               new_row.current_balance))
          /\ ev' = Ev("add_credit", s, u, amount, nextTxn, "ok")
    /\ nextTxn' = nextTxn + 1
    /\ UNCHANGED <<users, ledger>>

get_balance(s, u) == View(s, u)

\* ------------------------------------------------------ PIIRedactor.redact
\* text is a sequence of characters; a redaction token is one element
DigitChars == {"0", "1", "2", "3", "4", "5", "6", "7", "8", "9"}

UpperChars ==
    {"A", "B", "C", "D", "E", "F", "G", "H", "I", "J", "K", "L", "M",
     "N", "O", "P", "Q", "R", "S", "T", "U", "V", "W", "X", "Y", "Z"}

LowerChars ==
    {"a", "b", "c", "d", "e", "f", "g", "h", "i", "j", "k", "l", "m",
     "n", "o", "p", "q", "r", "s", "t", "u", "v", "w", "x", "y", "z"}

\* [-\s]
SepChars == {"-", " "}

\* [a-zA-Z0-9._%+-] and [a-zA-Z0-9.-]
LocalChars ==
    LowerChars \cup UpperChars \cup DigitChars \cup {".", "_", "%", "+", "-"}

DomainChars == LowerChars \cup UpperChars \cup DigitChars \cup {".", "-"}

At(text, i) == IF i \in DOMAIN text THEN text[i] ELSE "end"

\* text[i .. i+n-1] are n characters of the class
RunOf(text, i, n, class) == \A k \in i..(i + n - 1) : At(text, k) \in class

\* how many characters of the class follow from position i on
RunLen(text, i, class) ==
    LET ends == {k \in i..(Len(text) + 1) :
                    /\ \A j \in i..(k - 1) : text[j] \in class
                    /\ At(text, k) \notin class}
    IN IF ends = {} THEN 0 ELSE (CHOOSE k \in ends : TRUE) - i

\* an optional character is taken when it is there and the rest matches
\* with it, and left out otherwise (a greedy ? with backtracking)
NoMatch == 0

\* \+?91?[-\s]?\d{10}: the position after the match that starts at i
PhoneEnd(text, i) ==
    LET a == IF At(text, i) = "+" THEN i + 1 ELSE i
        digits(j) == IF RunOf(text, j, 10, DigitChars) THEN j + 10
                     ELSE NoMatch
        sep(j) == IF At(text, j) \in SepChars /\ digits(j + 1) # NoMatch
                  THEN digits(j + 1) ELSE digits(j)
        one(j) == IF At(text, j) = "1" /\ sep(j + 1) # NoMatch
                  THEN sep(j + 1) ELSE sep(j)
    IN IF At(text, a) = "9" THEN one(a + 1) ELSE NoMatch

\* \d{4}[-\s]?\d{4}[-\s]?\d{4}
AadhaarEnd(text, i) ==
    LET last(j) == IF RunOf(text, j, 4, DigitChars) THEN j + 4 ELSE NoMatch
        sep2(j) == IF At(text, j) \in SepChars /\ last(j + 1) # NoMatch
                   THEN last(j + 1) ELSE last(j)
        mid(j) == IF RunOf(text, j, 4, DigitChars) THEN sep2(j + 4)
                  ELSE NoMatch
        sep1(j) == IF At(text, j) \in SepChars /\ mid(j + 1) # NoMatch
                   THEN mid(j + 1) ELSE mid(j)
    IN IF RunOf(text, i, 4, DigitChars) THEN sep1(i + 4) ELSE NoMatch

\* [A-Z]{5}\d{4}[A-Z]
PanEnd(text, i) ==
    IF /\ RunOf(text, i, 5, UpperChars)
       /\ RunOf(text, i + 5, 4, DigitChars)
       /\ At(text, i + 9) \in UpperChars
    THEN i + 10 ELSE NoMatch

\* [a-zA-Z0-9._%+-]+@[a-zA-Z0-9.-]+\.[a-zA-Z]{2,}: the local part runs up
\* to the @; the domain part gives back characters until a dot followed by
\* two letters or more is found
EmailEnd(text, i) ==
    LET n == RunLen(text, i, LocalChars)
        at == i + n
        d == RunLen(text, at + 1, DomainChars)
        dots == {k \in (at + 2)..(at + d) :
                    /\ text[k] = "."
                    /\ RunLen(text, k + 1, LowerChars \cup UpperChars) >= 2}
        dot == CHOOSE k \in dots : \A j \in dots : j <= k
    IN IF n >= 1 /\ At(text, at) = "@" /\ dots # {}
       THEN dot + 1 + RunLen(text, dot + 1, LowerChars \cup UpperChars)
       ELSE NoMatch

PatternEnd(kind, text, i) ==
    CASE kind = "phone" -> PhoneEnd(text, i)
      [] kind = "aadhaar" -> AadhaarEnd(text, i)
      [] kind = "pan" -> PanEnd(text, i)
      [] kind = "email" -> EmailEnd(text, i)

\* re.sub: the text is scanned from the left; a match is replaced by the
\* token and the scan goes on behind it
RECURSIVE Sub(_, _, _, _)
Sub(kind, token, text, i) ==
    IF i > Len(text)
    THEN <<>>
    ELSE IF PatternEnd(kind, text, i) # NoMatch
    THEN <<token>> \o Sub(kind, token, text, PatternEnd(kind, text, i))
    ELSE <<text[i]>> \o Sub(kind, token, text, i + 1)

redact(text) ==
    Sub("email", "[EMAIL_REDACTED]",
        Sub("pan", "[PAN_REDACTED]",
            Sub("aadhaar", "[AADHAAR_REDACTED]",
                Sub("phone", "[PHONE_REDACTED]", text, 1), 1), 1), 1)

\* ------------------------------------------------- CallLogPacket.events
\* the event types the handlers log and the payloads they pass: no payload
\* (None), an empty dict, or a dict with something in it
LogEventTypes ==
    {"AUDIO_RECEIVED", "INTENT_DETECTED", "WALLET_LOCKED", "CALL_ENDED"}

LogData == {"None", "empty", "payload"}

\* `data or {}`: no payload and an empty payload are both logged as {}
LogEvent(event_type, data) ==
    [event_type |-> event_type,
     data |-> IF data = "None" THEN "empty" ELSE data]

\* mutant: the newest event is put first
add_event_Prepends(evts, event_type, data) ==
    <<LogEvent(event_type, data)>> \o evts

add_event(evts, event_type, data) ==
    Append(evts, LogEvent(event_type, data))

\* ------------------------------------------------------- SilenceDetector
\* time is counted in half seconds; datetime.now() is read once a chunk
NoTime == -1
min_silence_duration == 3
max_pause_duration == 6

Signal(is_complete, silence_duration, should_prompt) ==
    [is_complete |-> is_complete, silence_duration |-> silence_duration,
     should_prompt |-> should_prompt]

\* a chunk as it was fed: when, and whether is_silence was passed as true
Fed(t, is_silence) == [t |-> t, is_silence |-> is_silence]

\* SilenceDetector.__init__, with the clock, the chunks fed since the last
\* reset and the dict the last process_chunk returned
NewDetector ==
    [silence_start |-> NoTime, speech_detected |-> FALSE, now |-> 0,
     fed |-> <<>>, result |-> Signal(FALSE, 0, FALSE)]

\* mutant: speech does not end the run of silence
process_chunk_KeepsRun(d, now, is_silence) ==
    IF is_silence
    THEN LET start == IF d.silence_start = NoTime THEN now
                      ELSE d.silence_start
             silence_duration == now - start
         IN [d EXCEPT
               !.silence_start = start,
               !.result =
                  IF d.speech_detected
                     /\ silence_duration >= min_silence_duration
                  THEN Signal(TRUE, silence_duration, FALSE)
                  ELSE IF silence_duration >= max_pause_duration
                  THEN Signal(FALSE, silence_duration, TRUE)
                  ELSE Signal(FALSE, silence_duration, FALSE)]
    ELSE [d EXCEPT !.speech_detected = TRUE,
                   !.result = Signal(FALSE, 0, FALSE)]

process_chunk(d, now, is_silence) ==
    IF is_silence
    THEN LET start == IF d.silence_start = NoTime THEN now
                      ELSE d.silence_start
             silence_duration == now - start
         IN [d EXCEPT
               !.silence_start = start,
               !.result =
                  IF d.speech_detected
                     /\ silence_duration >= min_silence_duration
                  THEN Signal(TRUE, silence_duration, FALSE)
                  ELSE IF silence_duration >= max_pause_duration
                  THEN Signal(FALSE, silence_duration, TRUE)
                  ELSE Signal(FALSE, silence_duration, FALSE)]
    ELSE [d EXCEPT !.speech_detected = TRUE, !.silence_start = NoTime,
                   !.result = Signal(FALSE, 0, FALSE)]

\* SilenceDetector.reset
reset(d) == [d EXCEPT !.silence_start = NoTime, !.speech_detected = FALSE]

\* ------------------------------------ VoiceProcessor.process_audio_stream
\* settings.SILENCE_THRESHOLD_SECONDS (1.5 s) in half seconds
silence_threshold == 3

\* a chunk of the stream: audio above the amplitude threshold, audio below
\* it, or no bytes at all (is_silence answers false on an empty chunk)
ChunkKinds == {"speech", "silence", "empty"}

is_silence(chunk) == chunk = "silence"

Chunk(t, kind) == [t |-> t, kind |-> kind]

TranscriptionResult(text, confidence, is_complete) ==
    [text |-> text, confidence |-> confidence, is_complete |-> is_complete]

\* what the transcription backend makes of the audio
SttTexts == {"sugar ki goli", "yes"}
SttConfidences == {700, 900}

\* one process_audio_stream call: the local silence_start, the clock, the
\* chunks buffered, whether the loop was left by break, the calls made to
\* the transcription backend and the result returned
NewVoice ==
    [phase |-> "new", silence_start |-> NoTime, now |-> 0, chunks |-> <<>>,
     broke |-> FALSE, stt_calls |-> 0,
     result |-> TranscriptionResult("", 0, FALSE)]

\* buffer.get_audio() is empty iff no chunk carried bytes
HasAudio(chunks) == \E i \in DOMAIN chunks : chunks[i].kind # "empty"

\* the lines after the loop: an empty buffer is answered without the
\* backend, anything else is transcribed
Transcribed(v, text, confidence) ==
    IF ~HasAudio(v.chunks)
    THEN [v EXCEPT !.phase = "done",
                   !.result = TranscriptionResult("", 0, FALSE)]
    ELSE [v EXCEPT !.phase = "done", !.stt_calls = @ + 1,
                   !.result = TranscriptionResult(text, confidence, TRUE)]

\* the body of the loop for one chunk read at time now
Buffered(v, now, kind) ==
    LET w == [v EXCEPT !.phase = "reading", !.now = now,
                       !.chunks = Append(@, Chunk(now, kind))]
    IN IF is_silence(kind)
       THEN IF v.silence_start = NoTime
            THEN [w EXCEPT !.silence_start = now]
            ELSE IF now - v.silence_start >= silence_threshold
                 THEN [w EXCEPT !.broke = TRUE]
                 ELSE w
       ELSE [w EXCEPT !.silence_start = NoTime]

\* -------------------------------------------------- MockPharmacyAdapter
\* two entries of the catalog, and a sku that is not in it
CatalogSkus == {"SHELCAL500", "ATORVA10"}
Skus == CatalogSkus \cup {"NOSUCH"}

catalog_price == [sku \in CatalogSkus |->
                    IF sku = "SHELCAL500" THEN 12000 ELSE 8500]

catalog_stock == [sku \in CatalogSkus |->
                    IF sku = "SHELCAL500" THEN 100 ELSE 50]

\* the quantities asked for: one strip, or more than ATORVA10 has in stock
Quantities == {1, 60}

Item(sku, quantity) == [sku |-> sku, quantity |-> quantity]

Items == {Item(sku, q) : sku \in Skus, q \in Quantities}

\* the item lists of an order: up to two lines
ItemLists ==
    {<<>>} \cup {<<a>> : a \in Items} \cup {<<a, b>> : a \in Items, b \in Items}

\* the order id drawn from the clock and random.randint
MockOrderIds == {"PH1", "PH2"}

OrderResult(success, order_id, error, total) ==
    [success |-> success, order_id |-> order_id, error |-> error,
     total |-> total]

\* MockPharmacyAdapter.__init__, with the result of the last place_order
NewPharmacy ==
    [stock |-> catalog_stock, orders |-> {}, calls |-> 0,
     result |-> OrderResult(FALSE, "none", "none", 0)]

\* the validation loop from line i on: each line is checked and, when it
\* passes, its quantity is taken off the stock before the next line is
\* looked at; the loop returns at the first line that fails
RECURSIVE Validated(_, _, _, _)
Validated(stock, items, i, total) ==
    IF i > Len(items)
    THEN [ok |-> TRUE, stock |-> stock, total |-> total, error |-> "none"]
    ELSE LET sku == items[i].sku
             quantity == items[i].quantity
         IN IF sku \notin CatalogSkus
            THEN [ok |-> FALSE, stock |-> stock, total |-> total,
                  error |-> "not found"]
            ELSE IF stock[sku] < quantity
            THEN [ok |-> FALSE, stock |-> stock, total |-> total,
                  error |-> "Insufficient stock"]
            ELSE Validated([stock EXCEPT ![sku] = @ - quantity], items,
                           i + 1, total + catalog_price[sku] * quantity)

place_order(ph, outage, items, order_id) ==
    IF outage
    THEN [ph EXCEPT !.result =
            OrderResult(FALSE, "none", "temporarily unavailable", 0)]
    ELSE LET v == Validated(ph.stock, items, 1, 0)
         IN IF ~v.ok
            THEN [ph EXCEPT !.stock = v.stock,
                            !.result = OrderResult(FALSE, "none", v.error, 0)]
            ELSE [ph EXCEPT
                    !.stock = v.stock,
                    !.orders = {o \in @ : o.order_id # order_id}
                               \cup {[order_id |-> order_id,
                                      total |-> v.total]},
                    !.result = OrderResult(TRUE, order_id, "none", v.total)]

\* ------------------------------------------------ the session context store
CallSids == {"CA1", "CA2"}

\* ------------------------------------------------- ClarificationFlow
\* ClarificationFlow.__init__: max_attempts
max_attempts == 3

\* a call of clarify: the attempt counter, the results process_audio_stream
\* gave it so far, and what it returned ("running" while it has not)
NewFlow ==
    [attempt |-> 0, results |-> <<>>, returned |-> "running",
     value |-> "none"]

\* -------------------------------------------------- the prototype service
\* init_db.py: the one user of the prototype and its balance, in rupees
PrototypeBalance == 1000

\* the request threads of the prototype: where each is in handle and debit,
\* the price of its order and the balance it read
NoThread == [at |-> "idle", amount |-> 0, balance |-> 0, ok |-> FALSE]

\* ------------------------------------------------------------------- Init
\* every user was credited `balance` once; nothing else has happened
Seeded(balance) ==
    /\ users = [u \in Users |-> Row(balance, 0)]
    /\ ledger = [i \in 1..NumUsers |->
                   LedgerEntry(SeedTxn, i, balance, "CREDIT", balance)]
    /\ rowLock = [u \in Users |-> NoSession]
    /\ wrows = [s \in Sessions |-> [u \in Users |-> ZeroRow]]
    /\ wentries = [s \in Sessions |-> <<>>]
    /\ pc = [s \in Sessions |-> "idle"]
    /\ call = [s \in Sessions |-> NoCall]
    /\ run = [s \in Sessions |-> NoRun]
    /\ nextTxn = 1
    /\ nOps = 0
    /\ nOrders = 0
    /\ ev = NoEv
    /\ reply = NoReply
    /\ pending = [s \in Sessions |-> NoContext]
    /\ events = <<>>
    /\ detector = NewDetector
    /\ voice = NewVoice
    /\ pharmacy = NewPharmacy
    /\ sessionStore = [c \in CallSids |-> NoContext]
    /\ flow = NewFlow
    /\ proto = [balance |-> PrototypeBalance, ledger |-> <<>>,
                thread |-> [t \in Sessions |-> NoThread]]
    /\ outbox = {}

Init ==
    /\ Seeded(SeedBalance)
    /\ probe = NoProbe

\* ------------------------------------------------------- units of work
\* get_db: a session is opened and yielded to the request handler
Begin(s) ==
    /\ pc[s] = "idle"
    /\ pc' = [pc EXCEPT ![s] = "open"]
    /\ ev' = Ev("begin", NoSession, 0, 0, NoTxn, "ok")
    /\ UNCHANGED <<users, ledger, rowLock, wrows, wentries, call, run,
                   nextTxn, nOps, nOrders>>
    /\ UNCHANGED front

\* get_db: the handler finished cleanly; everything the session wrote
\* becomes visible and its row locks are released
Commit(s) ==
    /\ pc[s] \in {"open", "returned", "answered"}
    /\ users' = [u \in Users |-> IF rowLock[u] = s THEN wrows[s][u]
                                 ELSE users[u]]
    /\ ledger' = ledger \o wentries[s]
    /\ rowLock' = [u \in Users |-> IF rowLock[u] = s THEN NoSession
                                   ELSE rowLock[u]]
    /\ wrows' = [wrows EXCEPT ![s] = [u \in Users |-> ZeroRow]]
    /\ wentries' = [wentries EXCEPT ![s] = <<>>]
    /\ pc' = [pc EXCEPT ![s] = "idle"]
    /\ run' = [run EXCEPT ![s] = NoRun]
    /\ ev' = Ev("commit", NoSession, 0, 0, NoTxn, "ok")
    /\ UNCHANGED <<call, nextTxn, nOps, nOrders>>
    /\ pending' = [pending EXCEPT ![s] = NoContext]
    /\ reply' = NoReply
    /\ UNCHANGED probe
    /\ UNCHANGED devices

\* mutant: what the session wrote is flushed when the handler raises
Rollback_Publishes(s) ==
    /\ pc[s] \in {"open", "raised"}
    /\ users' = [u \in Users |-> IF rowLock[u] = s THEN wrows[s][u]
                                 ELSE users[u]]
    /\ ledger' = ledger \o wentries[s]
    /\ rowLock' = [u \in Users |-> IF rowLock[u] = s THEN NoSession
                                   ELSE rowLock[u]]
    /\ wrows' = [wrows EXCEPT ![s] = [u \in Users |-> ZeroRow]]
    /\ wentries' = [wentries EXCEPT ![s] = <<>>]
    /\ pc' = [pc EXCEPT ![s] = "idle"]
    /\ run' = [run EXCEPT ![s] = NoRun]
    /\ ev' = Ev("rollback", NoSession, 0, 0, NoTxn, "ok")
    /\ UNCHANGED <<call, nextTxn, nOps, nOrders>>
    /\ pending' = [pending EXCEPT ![s] = NoContext]
    /\ reply' = NoReply
    /\ UNCHANGED probe
    /\ UNCHANGED devices

\* get_db: the handler raised; everything the session wrote is discarded
Rollback(s) ==
    /\ pc[s] \in {"open", "raised"}
    /\ rowLock' = [u \in Users |-> IF rowLock[u] = s THEN NoSession
                                   ELSE rowLock[u]]
    /\ wrows' = [wrows EXCEPT ![s] = [u \in Users |-> ZeroRow]]
    /\ wentries' = [wentries EXCEPT ![s] = <<>>]
    /\ pc' = [pc EXCEPT ![s] = "idle"]
    /\ run' = [run EXCEPT ![s] = NoRun]
    /\ ev' = Ev("rollback", NoSession, 0, 0, NoTxn, "ok")
    /\ UNCHANGED <<users, ledger, call, nextTxn, nOps, nOrders>>
    /\ pending' = [pending EXCEPT ![s] = NoContext]
    /\ reply' = NoReply
    /\ UNCHANGED probe
    /\ UNCHANGED devices

\* --------------------------------- WalletLedger called by a handler directly
\* check_and_lock called directly: the cap check, then the savepoint, which
\* runs as soon as the row lock is granted
WalletCheckAndLock(s, u, amount) ==
    /\ pc[s] = "open"
    /\ nOps < MaxOps
    /\ nOps' = nOps + 1
    /\ IF ExceedsLimit(amount)
       THEN check_and_lock_limit(s, u, amount)
       ELSE /\ nextTxn <= MaxTxn
            /\ nextTxn' = nextTxn + 1
            /\ check_and_lock_locked(s, u, amount, nextTxn)
    /\ UNCHANGED <<pc, call, run, nOrders>>
    /\ UNCHANGED front

WalletConfirmDebit(s, txn, u) ==
    /\ pc[s] = "open"
    /\ nOps < MaxOps
    /\ nOps' = nOps + 1
    /\ confirm_debit(s, txn, u)
    /\ UNCHANGED <<pc, call, run, nOrders>>
    /\ UNCHANGED front

WalletAutoRefund(s, txn, u) ==
    /\ pc[s] = "open"
    /\ nOps < MaxOps
    /\ nOps' = nOps + 1
    /\ auto_refund(s, txn, u)
    /\ UNCHANGED <<pc, call, run, nOrders>>
    /\ UNCHANGED front

WalletAddCredit(s, u, amount) ==
    /\ pc[s] = "open"
    /\ nOps < MaxOps
    /\ nOps' = nOps + 1
    /\ nextTxn <= MaxTxn
    /\ add_credit(s, u, amount)
    /\ UNCHANGED <<pc, call, run, nOrders>>
    /\ UNCHANGED front

\* ------------------------------ ExecutionOrchestrator.execute_confirmed_order
PharmacyOrderIds == {501}

Step(r, name) == [r EXCEPT !.trace = Append(@, name)]

Result(ok, voice_response, order_id, new_balance, error) ==
    [returned |-> TRUE, success |-> ok, order_id |-> order_id,
     new_balance |-> new_balance, error |-> error,
     voice_response |-> voice_response]

\* call_log.add_event on the packet handed to execute_confirmed_order
Logged(r, event_type) ==
    [r EXCEPT !.log = add_event(@, event_type, "payload")]

\* where the run goes after check_and_lock: only InsufficientBalanceError is
\* caught (returned as a result); a lock goes on to the pharmacy call
\* mutant: the pharmacy is called whatever check_and_lock answered
AfterLock_Always(outcome) == "pharmacy"

\* mutant: InsufficientBalanceError is not caught
AfterLock_Propagates(outcome) ==
    IF outcome = "ok" THEN "pharmacy" ELSE "raised"

AfterLock(outcome) ==
    IF outcome = "ok" THEN "pharmacy" ELSE "returned"

\* where the run goes after place_order: the debit on success, the except
\* branch (auto-refund) on a failure result or an exception
\* mutant: the success flag of the pharmacy result is not looked at
AfterPlace_AlwaysConfirm(outcome) == "confirm"

AfterPlace(outcome) ==
    IF outcome = "success" THEN "confirm" ELSE "refund"

\* the argument the run passes to confirm_debit and to auto_refund
SettleTxn(r) == r.transaction_id

\* the runs whose check_and_lock on user u is waiting for the row lock
WaitingOn(u) ==
    {t \in Sessions : pc[t] = "locking" /\ call[t].user = u}

\* a webhook turn obtains its session and calls execute_confirmed_order: the
\* Order row is added (PENDING) and check_and_lock is called; an amount
\* above the cap raises TransactionLimitError, which is not caught here
execute_confirmed_order(s, u, total_price) ==
    /\ pc[s] \in {"idle", "answered"}
    /\ nOrders < MaxOrders
    /\ nOrders' = nOrders + 1
    /\ UNCHANGED nOps
    /\ LET order == [NoRun EXCEPT !.user = u, !.total = total_price,
                                  !.order_number = 1000 + nOrders,
                                  !.avail0 = available(users[u]),
                                  !.execution_status = "PENDING"]
       IN IF ExceedsLimit(total_price)
          THEN /\ check_and_lock_limit(s, u, total_price)
               /\ run' = [run EXCEPT ![s] = Step(order, "lock_limit")]
               /\ pc' = [pc EXCEPT ![s] = "raised"]
               /\ UNCHANGED call
          ELSE /\ nextTxn <= MaxTxn
               /\ nextTxn' = nextTxn + 1
               /\ call' = [call EXCEPT ![s] =
                             [user |-> u, amount |-> total_price,
                              txn |-> nextTxn]]
               /\ run' = [run EXCEPT ![s] = order]
               /\ pc' = [pc EXCEPT ![s] = "locking"]
               /\ ev' = Ev("check_and_lock", s, u, total_price, nextTxn,
                           "waiting")
               /\ UNCHANGED <<users, ledger, rowLock, wrows, wentries>>

\* execute_confirmed_order called with a confirmation context
ExecuteConfirmedOrder(s, u, total_price) ==
    /\ execute_confirmed_order(s, u, total_price)
    /\ UNCHANGED front

\* Step 1: the row lock is granted; InsufficientBalanceError is caught and
\* turned into a result, a lock goes on to the pharmacy call
OrderLock(s) ==
    /\ pc[s] = "locking"
    /\ check_and_lock_locked(s, call[s].user, call[s].amount, call[s].txn)
    /\ LET u == call[s].user
           ok == ev'.outcome = "ok"
           mine == IF ok
                   THEN Logged(Step([run[s] EXCEPT
                                       !.transaction_id = ev'.txn,
                                       !.pre = View(s, u)],
                                    "lock_ok"),
                               "WALLET_LOCKED")
                   ELSE Step([run[s] EXCEPT
                                !.pre = View(s, u),
                                !.result = Result(FALSE,
                                               "INSUFFICIENT_BALANCE", 0, -1,
                                               "InsufficientBalanceError")],
                             "lock_insufficient")
       IN run' = [t \in Sessions |->
                    IF t = s THEN mine
                    ELSE IF ok /\ t \in WaitingOn(u)
                         THEN [run[t] EXCEPT
                                 !.rivals = @ \cup {call[s].amount}]
                         ELSE run[t]]
    /\ pc' = [pc EXCEPT ![s] = AfterLock(ev'.outcome)]
    /\ call' = [call EXCEPT ![s] = NoCall]
    /\ UNCHANGED <<nextTxn, nOps, nOrders>>
    /\ UNCHANGED front

\* Step 2: pharmacy.place_order returns success, returns failure or raises
PlaceOrder(s, outcome, order_id) ==
    /\ pc[s] = "pharmacy"
    /\ run' = [run EXCEPT ![s] =
                 Step([@ EXCEPT !.pharmacy = IF outcome = "success"
                                              THEN "success" ELSE "failed",
                                !.pharmacy_order_id =
                                    IF outcome = "success" THEN order_id
                                    ELSE 0],
                      IF outcome = "success" THEN "place_success"
                      ELSE "place_failed")]
    /\ pc' = [pc EXCEPT ![s] = AfterPlace(outcome)]
    /\ ev' = Ev("place_order", s, run[s].user, run[s].total,
                run[s].transaction_id, outcome)
    /\ UNCHANGED <<users, ledger, rowLock, wrows, wentries, call, nextTxn,
                   nOps, nOrders>>
    /\ UNCHANGED front

\* Step 3: confirm_debit, the Order marked SUCCESS, the new balance read
OrderConfirm(s) ==
    /\ pc[s] = "confirm"
    /\ confirm_debit(s, SettleTxn(run[s]), run[s].user)
    /\ IF ev'.outcome = "ok"
       THEN /\ run' = [run EXCEPT ![s] =
                         Logged(Logged(Step([@ EXCEPT
                                 !.debit_txn = ev'.txn,
                                 !.external_order_id = run[s].pharmacy_order_id,
                                 !.execution_status = "SUCCESS",
                                 !.result = Result(TRUE, "ORDER_COMPLETE",
                                     run[s].order_number,
                                     ViewNext(s, run[s].user).current_balance,
                                     "none")],
                              "debit_ok"),
                            "WALLET_DEBITED"), "ORDER_PLACED")]
            /\ pc' = [pc EXCEPT ![s] = "returned"]
       ELSE /\ run' = [run EXCEPT ![s] =
                         Step([@ EXCEPT !.debit_txn = ev'.txn],
                              "debit_error")]
            /\ pc' = [pc EXCEPT ![s] = "refund"]
    /\ UNCHANGED <<call, nOps, nOrders>>
    /\ UNCHANGED front

\* Step 4 (failure): auto_refund, the Order marked FAILED
OrderRefund(s) ==
    /\ pc[s] = "refund"
    /\ auto_refund(s, SettleTxn(run[s]), run[s].user)
    /\ IF ev'.outcome = "ok"
       THEN /\ run' = [run EXCEPT ![s] =
                         Logged(Logged(Step([@ EXCEPT
                                 !.refund_txn = ev'.txn,
                                 !.execution_status = "FAILED",
                                 !.result = Result(FALSE, "API_ERROR", 0, -1,
                                                   "pharmacy")],
                              "refund_ok"),
                            "ORDER_FAILED"), "WALLET_REFUNDED")]
            /\ pc' = [pc EXCEPT ![s] = "returned"]
       ELSE /\ run' = [run EXCEPT ![s] =
                         Step([@ EXCEPT !.refund_txn = ev'.txn],
                              "refund_error")]
            /\ pc' = [pc EXCEPT ![s] = "raised"]
    /\ UNCHANGED <<call, nOps, nOrders>>
    /\ UNCHANGED front

\* Steps 3 and after, when something inside the try block raises: either
\* confirm_debit itself (nothing is written), or the balance read after the
\* debit was written and the Order marked SUCCESS; both end in the except
\* branch, which calls auto_refund
OrderFaults == {"confirm_debit_raises", "get_balance_raises"}

OrderConfirmRaises(s, fault) ==
    /\ pc[s] = "confirm"
    /\ IF fault = "confirm_debit_raises"
       THEN /\ run' = [run EXCEPT ![s] = Step(@, "debit_raised")]
            /\ ev' = Ev("confirm_debit", s, run[s].user, 0,
                        SettleTxn(run[s]), "raised")
            /\ UNCHANGED <<users, ledger, rowLock, wrows, wentries, nextTxn>>
       ELSE /\ confirm_debit(s, SettleTxn(run[s]), run[s].user)
            /\ ev'.outcome = "ok"
            /\ run' = [run EXCEPT ![s] =
                         Step(Logged(Logged(Step([@ EXCEPT
                                 !.debit_txn = ev'.txn,
                                 !.external_order_id = run[s].pharmacy_order_id,
                                 !.execution_status = "SUCCESS"],
                              "debit_ok"),
                            "WALLET_DEBITED"), "ORDER_PLACED"),
                            "balance_raised")]
    /\ pc' = [pc EXCEPT ![s] = "refund"]
    /\ UNCHANGED <<call, nOps, nOrders>>
    /\ UNCHANGED front

\* ------------------------------------------------------------------- Next
Next ==
    \/ \E s \in Sessions : Begin(s)
    \/ \E s \in Sessions : Commit(s)
    \/ \E s \in Sessions : Rollback(s)
    \/ \E s \in Sessions, u \in Users, a \in Amounts :
          WalletCheckAndLock(s, u, a)
    \/ \E s \in Sessions, t \in TxnIds, u \in Users :
          WalletConfirmDebit(s, t, u)
    \/ \E s \in Sessions, t \in TxnIds, u \in Users :
          WalletAutoRefund(s, t, u)
    \/ \E s \in Sessions, u \in Users, a \in CreditAmounts :
          WalletAddCredit(s, u, a)
    \/ \E s \in Sessions, u \in Users, a \in Amounts :
          ExecuteConfirmedOrder(s, u, a)
    \/ \E s \in Sessions : OrderLock(s)
    \/ \E s \in Sessions, o \in PlaceOutcomes, i \in PharmacyOrderIds :
          PlaceOrder(s, o, i)
    \/ \E s \in Sessions : OrderConfirm(s)
    \/ \E s \in Sessions : OrderRefund(s)

Spec == Init /\ [][Next]_vars

\* one handler at a time calling the WalletLedger operations directly, in
\* any order and with any arguments
LedgerSession == 1

NextLedger ==
    \/ Begin(LedgerSession)
    \/ Commit(LedgerSession)
    \/ Rollback(LedgerSession)
    \/ \E u \in Users, a \in Amounts :
          WalletCheckAndLock(LedgerSession, u, a)
    \/ \E t \in TxnIds, u \in Users :
          WalletConfirmDebit(LedgerSession, t, u)
    \/ \E t \in TxnIds, u \in Users :
          WalletAutoRefund(LedgerSession, t, u)
    \/ \E u \in Users, a \in CreditAmounts :
          WalletAddCredit(LedgerSession, u, a)

SpecLedger == Init /\ [][NextLedger]_vars

\* concurrent webhook turns, each running execute_confirmed_order in its own
\* unit of work
NextOrders ==
    \/ \E s \in Sessions : Commit(s)
    \/ \E s \in Sessions : Rollback(s)
    \/ \E s \in Sessions, u \in Users, a \in Amounts :
          ExecuteConfirmedOrder(s, u, a)
    \/ \E s \in Sessions : OrderLock(s)
    \/ \E s \in Sessions, o \in PlaceOutcomes, i \in PharmacyOrderIds :
          PlaceOrder(s, o, i)
    \/ \E s \in Sessions : OrderConfirm(s)
    \/ \E s \in Sessions : OrderRefund(s)

SpecOrders == Init /\ [][NextOrders]_vars

\* the runs of orders with the failures the try block can meet after the
\* pharmacy accepted the order
NextOrderFaults ==
    \/ NextOrders
    \/ \E s \in Sessions, fault \in OrderFaults : OrderConfirmRaises(s, fault)

SpecOrderFaults == Init /\ [][NextOrderFaults]_vars

\* ------------------------------------------------------ WalletRulesEngine
max_single_transaction == MAX_TRANSACTION_AMOUNT * 100

daily_limit == 5000 * 100

Verdict(valid, error) == [valid |-> valid, error |-> error]

\* mutant: the daily limit is looked at before the balance
validate_transaction_DailyFirst(amount, current_balance, locked_balance, daily_spent) ==
    IF amount > max_single_transaction
    THEN Verdict(FALSE, "Amount exceeds maximum")
    ELSE IF daily_spent + amount > daily_limit
    THEN Verdict(FALSE, "Daily spending limit would be exceeded")
    ELSE IF amount > current_balance - locked_balance
    THEN Verdict(FALSE, "Insufficient balance")
    ELSE Verdict(TRUE, "none")

\* the error is the message of the first rule that fails
validate_transaction(amount, current_balance, locked_balance, daily_spent) ==
    IF amount > max_single_transaction
    THEN Verdict(FALSE, "Amount exceeds maximum")
    ELSE IF amount > current_balance - locked_balance
    THEN Verdict(FALSE, "Insufficient balance")
    ELSE IF daily_spent + amount > daily_limit
    THEN Verdict(FALSE, "Daily spending limit would be exceeded")
    ELSE Verdict(TRUE, "none")

\* ----------------------------------------------- IntentEngine: the gates
\* confidence scores are counted in thousandths: 0.85 is 850
CONFIDENCE_THRESHOLD == 850
SAFE_REFUSAL_THRESHOLD == 900

IntentTypes == {"ORDER_MEDICINE", "CHECK_BALANCE", "ORDER_STATUS", "UNKNOWN"}
Confidences == {0, 300, 750, 849, 850, 899, 900, 950}
ClarificationKinds == {"none", "medicine_name", "quantity"}

Intents ==
    [intent_type : IntentTypes, confidence_score : Confidences,
     emergency_detected : BOOLEAN, clarification_needed : ClarificationKinds]

\* mutant: a score on the threshold still asks for clarification
needs_clarification_AtMost(intent) ==
    intent.confidence_score <= CONFIDENCE_THRESHOLD

needs_clarification(intent) ==
    intent.confidence_score < CONFIDENCE_THRESHOLD

should_refuse(intent) ==
    /\ intent.confidence_score < SAFE_REFUSAL_THRESHOLD
    /\ intent.intent_type = "UNKNOWN"

\* ------------------------------------- ExecutionOrchestrator.process_intent
\* what resolving and pricing the items of an order came to: an item that
\* matches no medicine, an item out of stock, or the total of the order
OrderTotals == {200000, 250000}

Quotes ==
    {NoQuote, [matched |-> TRUE, available |-> FALSE, total_price |-> 0]}
    \cup {[matched |-> TRUE, available |-> TRUE, total_price |-> t] :
             t \in OrderTotals}

Answer(success, voice_response, confirm, context, new_balance, calls) ==
    [NoReply EXCEPT !.op = "process_intent", !.success = success,
                    !.voice_response = voice_response,
                    !.requires_confirmation = confirm,
                    !.context = context, !.new_balance = new_balance,
                    !.calls = calls]

Context(type, u, total_price) ==
    [type |-> type, user_id |-> u, total_price |-> total_price]

get_clarification_prompt(intent) ==
    IF intent.clarification_needed = "medicine_name"
    THEN "CLARIFICATION_MEDICINE"
    ELSE IF intent.clarification_needed = "quantity"
    THEN "CLARIFICATION_QUANTITY"
    ELSE "SAFE_REFUSAL"

\* what _handle_order_medicine hands to validate_transaction as daily_spent:
\* nothing, so the parameter takes its default
daily_spent_passed(entries, u) == 0

handle_order_medicine(intent, u, quote, row, entries) ==
    IF needs_clarification(intent)
    THEN Answer(FALSE, get_clarification_prompt(intent), TRUE,
                Context("clarification", 0, 0), -1, {})
    ELSE IF ~quote.matched
    THEN Answer(FALSE, "CLARIFICATION_MEDICINE", TRUE,
                Context("medicine_clarification", 0, 0), -1, {"resolve"})
    ELSE IF ~quote.available
    THEN Answer(FALSE, "NOT_AVAILABLE", FALSE, NoContext, -1,
                {"resolve", "check_availability"})
    ELSE LET v == validate_transaction(quote.total_price,
                      row.current_balance, row.locked_balance,
                      daily_spent_passed(entries, u))
             calls == {"resolve", "check_availability", "get_balance",
                       "validate_transaction"}
         IN IF ~v.valid
            THEN IF v.error = "Insufficient balance"
                 THEN Answer(FALSE, "INSUFFICIENT_BALANCE", FALSE, NoContext,
                             -1, calls)
                 ELSE Answer(FALSE, v.error, FALSE, NoContext, -1, calls)
            ELSE Answer(TRUE, "ORDER_CONFIRMATION", TRUE,
                        Context("order_confirmation", u, quote.total_price),
                        -1, calls)

handle_check_balance(row) ==
    Answer(TRUE, "BALANCE_CHECK", FALSE, NoContext, available(row),
           {"get_balance"})

handle_order_status ==
    Answer(TRUE, "ORDER_STATUS", FALSE, NoContext, -1, {})

\* mutant: the refusal gate is missing
process_intent_NoGate(intent, u, quote, row, entries) ==
    IF intent.intent_type = "ORDER_MEDICINE"
    THEN handle_order_medicine(intent, u, quote, row, entries)
    ELSE IF intent.intent_type = "CHECK_BALANCE"
    THEN handle_check_balance(row)
    ELSE IF intent.intent_type = "ORDER_STATUS"
    THEN handle_order_status
    ELSE IF intent.emergency_detected
    THEN Answer(FALSE, "EMERGENCY_REDIRECT", FALSE, NoContext, -1, {})
    ELSE Answer(FALSE, "UNSUPPORTED_ACTION", FALSE, NoContext, -1, {})

process_intent(intent, u, quote, row, entries) ==
    IF should_refuse(intent)
    THEN Answer(FALSE, "SAFE_REFUSAL", FALSE, NoContext, -1, {})
    ELSE IF intent.intent_type = "ORDER_MEDICINE"
    THEN handle_order_medicine(intent, u, quote, row, entries)
    ELSE IF intent.intent_type = "CHECK_BALANCE"
    THEN handle_check_balance(row)
    ELSE IF intent.intent_type = "ORDER_STATUS"
    THEN handle_order_status
    ELSE IF intent.emergency_detected
    THEN Answer(FALSE, "EMERGENCY_REDIRECT", FALSE, NoContext, -1, {})
    ELSE Answer(FALSE, "UNSUPPORTED_ACTION", FALSE, NoContext, -1, {})

\* mutant: the wallet step of process_intent reserves the funds at once
WalletCheckOnly_Locks(s, u, amount) ==
    /\ check_and_lock_locked(s, u, amount, nextTxn)
    /\ UNCHANGED nextTxn

\* Step 4 of _handle_order_medicine: get_balance and validate_transaction
\* read; nothing is written
WalletCheckOnly(s, u, amount) ==
    UNCHANGED <<users, ledger, rowLock, wrows, wentries, nextTxn, ev>>

\* the intents a turn is tried with: scores on both sides of each threshold;
\* the emergency flag on UNKNOWN intents and the clarification wanted on
\* orders, where they are read; a quote where an order is priced
TurnConfidences == {300, 849, 850, 899, 900}

Turns ==
    {[intent |-> i, quote |-> q] : i \in Intents, q \in Quotes} \cap
    {t \in [intent : Intents, quote : Quotes] :
        /\ t.intent.confidence_score \in TurnConfidences
        /\ t.intent.emergency_detected => t.intent.intent_type = "UNKNOWN"
        /\ t.intent.clarification_needed # "none" =>
               t.intent.intent_type = "ORDER_MEDICINE"
        /\ t.quote # NoQuote => t.intent.intent_type = "ORDER_MEDICINE"}

\* one process_intent call of the caller of session s, answered; the caller
\* keeps the confirmation context of an answer that asks for confirmation
\* and may go on to confirm before the unit of work ends
ProcessIntent(s, u, intent, quote) ==
    /\ pc[s] = "idle"
    /\ reply' = [process_intent(intent, u, quote, get_balance(s, u),
                                LedgerView(s))
                    EXCEPT !.user = u, !.intent = intent, !.quote = quote]
    /\ pending' = [pending EXCEPT ![s] =
                      IF reply'.requires_confirmation THEN reply'.context
                      ELSE NoContext]
    /\ IF "validate_transaction" \in reply'.calls
       THEN WalletCheckOnly(s, u, quote.total_price)
       ELSE UNCHANGED <<users, ledger, rowLock, wrows, wentries, nextTxn,
                        ev>>
    /\ pc' = [pc EXCEPT ![s] = "answered"]
    /\ UNCHANGED <<call, run, nOps, nOrders, probe>>
    /\ UNCHANGED devices

\* the caller confirms: execute_confirmed_order with the context kept
ConfirmedOrder(s) ==
    /\ pending[s].type = "order_confirmation"
    /\ ExecuteConfirmedOrder(s, pending[s].user_id, pending[s].total_price)

\* ------------------------------------ telephony: the confirmation turn
\* strings are sequences of characters
Contains(word, str) ==
    \E i \in 0..(Len(str) - Len(word)) :
        SubSeq(str, i + 1, i + Len(word)) = word

\* str.lower() on the characters the replies are made of
LowerChar(c) == IF c = "Y" THEN "y" ELSE IF c = "N" THEN "n" ELSE c

Lower(str) == [i \in DOMAIN str |-> LowerChar(str[i])]

affirmative_words ==
    {<<"y", "e", "s">>,
     <<"h", "a", "a", "n">>,
     <<"h", "a">>,
     <<"o", "k", "a", "y">>,
     <<"o", "k">>,
     <<"t", "h", "e", "e", "k">>,
     <<"t", "h", "e", "e", "k", " ", "h", "a", "i">>,
     <<"k", "a", "r", " ", "d", "o">>,
     <<"o", "r", "d", "e", "r", " ", "k", "a", "r", "o">>}

negative_words ==
    {<<"n", "o">>,
     <<"n", "a", "h", "i">>,
     <<"n", "a", "a">>,
     <<"c", "a", "n", "c", "e", "l">>,
     <<"m", "a", "t", " ", "k", "a", "r", "o">>,
     <<"r", "u", "k", "o">>}

\* mutant: anything the caller says confirms
is_confirmed_AnySpeech(speech_result, digits) ==
    speech_result # <<>> \/ digits = "1"

is_confirmed(speech_result, digits) ==
    \/ \E word \in affirmative_words : Contains(word, speech_result)
    \/ digits = "1"

is_cancelled(speech_result, digits) ==
    \/ \E word \in negative_words : Contains(word, speech_result)
    \/ digits = "2"

\* what the caller said
Speeches ==
    {<<>>,
     <<"y", "e", "s">>,
     <<"Y", "e", "s">>,
     <<"h", "a", "a", "n">>,
     <<"o", "k">>,
     <<"k", "a", "r", " ", "d", "o">>,
     <<"n", "o">>,
     <<"N", "o">>,
     <<"n", "a", "h", "i">>,
     <<"n", "a", "a">>,
     <<"c", "a", "n", "c", "e", "l">>,
     <<"m", "a", "t", " ", "k", "a", "r", "o">>,
     <<"r", "u", "k", "o">>,
     <<"k", "y", "a">>,
     <<"n", "o", " ", "t", "h", "a", "n", "k", "s">>}

\* a reply is something said or a key pressed
Replies ==
    {[NoSaid EXCEPT !.speech = sp] : sp \in Speeches}
    \cup {[NoSaid EXCEPT !.digits = d] : d \in {"1", "2", "5"}}

\* the stored confirmation context of a call: the function has no body and
\* answers None whatever the call
get_session_context(store, call_sid) == NoContext

Said(r, voice_response, calls) ==
    [NoReply EXCEPT !.op = "handle_confirmation", !.said = r,
                    !.voice_response = voice_response, !.calls = calls]

HandleConfirmation(s, r) ==
    /\ pc[s] = "idle"
    /\ LET speech_result == Lower(r.speech)
           confirmation_context == get_session_context(sessionStore,
                                                       r.call_sid)
       IN IF is_confirmed(speech_result, r.digits)
          THEN IF confirmation_context # NoContext
               THEN /\ reply' = Said(r, "ORDER_RESULT",
                                     {"get_session_context",
                                      "execute_confirmed_order"})
                    /\ execute_confirmed_order(s,
                           confirmation_context.user_id,
                           confirmation_context.total_price)
               ELSE /\ reply' = Said(r, "ORDER_NOT_FOUND",
                                     {"get_session_context"})
                    /\ pc' = [pc EXCEPT ![s] = "answered"]
                    /\ UNCHANGED <<users, ledger, rowLock, wrows, wentries,
                                   call, run, nextTxn, nOps, nOrders, ev>>
          ELSE /\ IF is_cancelled(speech_result, r.digits)
                  THEN reply' = Said(r, "ORDER_CANCELLED", {})
                  ELSE reply' = Said(r, "ASK_AGAIN", {})
               /\ pc' = [pc EXCEPT ![s] = "answered"]
               /\ UNCHANGED <<users, ledger, rowLock, wrows, wentries,
                              call, run, nextTxn, nOps, nOrders, ev>>
    /\ UNCHANGED <<probe, pending>>
    /\ UNCHANGED devices

\* ------------------------------------------------------ the channels
\* the personal data of the rows: for every user two persons it may be,
\* who differ in name, phone number and address, with or without an earlier
\* order
Persons ==
    {[NoProfile EXCEPT !.full_name = "Kamla Devi",
                       !.phone_number = <<"+91", "98765", "43210">>,
                       !.address_line1 = "12 MG Road", !.city = "Pune",
                       !.pincode = "411001", !.preferred_language = "hi"],
     [NoProfile EXCEPT !.full_name = "Sarla Devi",
                       !.phone_number = <<"+91", "91234", "56789">>,
                       !.address_line1 = "4 Civil Lines", !.city = "Nagpur",
                       !.pincode = "440001", !.preferred_language = "hi"]}

Histories == {<<>>, <<"Shelcal 500">>}

Profiles ==
    {[q EXCEPT !.id = u, !.internal_id = <<"user", u>>,
               !.medicine_history = h] :
        u \in Users, q \in Persons, h \in Histories}

\* what was heard or written: a request for medicine, and the same with the
\* caller's phone number said in it
Transcripts ==
    {<<"d", "a", "w", "a", "i">>,
     <<"+", "9", "1", "9", "8", "7", "6", "5", "4", "3", "2", "1", "0", " ", "d", "a", "w", "a", "i">>}

\* build_user_context of the telephony controller
twilio_build_user_context(p) ==
    UserContext(p.internal_id, p.medicine_history, p.city,
                <<p.address_line1, p.city, p.pincode>>,
                p.preferred_language)

\* build_user_context of the messaging controller
whatsapp_build_user_context(p) ==
    UserContext(p.internal_id, p.medicine_history, "absent", <<>>, "absent")

\* the user_context built in simulate_call
simulate_call_user_context(p) ==
    UserContext(p.internal_id, p.medicine_history, p.city,
                <<p.address_line1, p.city, p.pincode>>, "absent")

\* IntentEngine._build_prompt: the fixed rules, the medicine history (left
\* out when empty) and the transcript as it was passed
build_prompt(transcript, user_context) ==
    [NoLlm EXCEPT !.called = TRUE, !.transcript = transcript,
                  !.medicine_history = user_context.medicine_history,
                  !.user_context = user_context]

\* how the reasoning service can be found: never set up, answering with an
\* intent, or failing in the call or in the reading of its answer
ProviderFailures ==
    {"malformed_json", "rate_limit", "invalid_key", "model_unavailable",
     "schema_violation", "other_error"}

Providers == {"unconfigured", "ok"} \cup ProviderFailures

\* the IntentSchema every failure is answered with, and what it says
Unknown(clarification) ==
    [NoIntent EXCEPT !.clarification_needed = clarification]

failure_clarification(provider) ==
    IF provider = "malformed_json" THEN "Failed to parse AI response as JSON"
    ELSE IF provider = "rate_limit" THEN "API rate limit exceeded"
    ELSE IF provider = "invalid_key" THEN "Invalid API key"
    ELSE IF provider = "model_unavailable" THEN "Model not available"
    ELSE "AI error"

\* mutant: an answer that does not fit the schema is taken as it is
parse_intent_Unvalidated(provider, transcript, user_context, answer) ==
    IF provider = "unconfigured"
    THEN [llm |-> NoLlm, intent |-> Unknown("AI Error")]
    ELSE [llm |-> build_prompt(transcript, user_context),
          intent |-> IF provider \in {"ok", "schema_violation"} THEN answer
                     ELSE Unknown(failure_clarification(provider))]

\* IntentEngine.parse_intent: without a client nothing is sent and the
\* intent is UNKNOWN at confidence 0; otherwise the prompt is sent, and the
\* answer of the service is the intent unless the call or the reading of
\* the answer raised, which gives UNKNOWN at confidence 0 again
parse_intent(provider, transcript, user_context, answer) ==
    IF provider = "unconfigured"
    THEN [llm |-> NoLlm, intent |-> Unknown("AI Error")]
    ELSE [llm |-> build_prompt(transcript, user_context),
          intent |-> IF provider = "ok" THEN answer
                     ELSE Unknown(failure_clarification(provider))]

\* the call log of a call: the function has no body and answers None
get_call_log(call_sid) == "None"

\* the function has no body: nothing is stored
store_session_context(store, call_sid, context) == store

\* the answers of the reasoning service a channel turn is tried with
ChannelTurns ==
    {t \in Turns :
        /\ t.intent.confidence_score \in {300, 900}
        /\ t.intent.clarification_needed = "none"
        /\ t.intent.confidence_score = 300 =>
               t.intent.intent_type = "UNKNOWN"}

ChannelIntents == {t.intent : t \in ChannelTurns}

Request(call_sid, p, registered, type, transcript, network, provider) ==
    [call_sid |-> call_sid, profile |-> p, registered |-> registered,
     type |-> type, transcript |-> transcript, network |-> network,
     provider |-> provider]

\* the turn a speech turn of the telephony controller comes to once it has
\* its call log: the intent is parsed and processed
voice_turn(req, t, row, entries) ==
    LET p == req.profile
        user_context == twilio_build_user_context(p)
        parsed == parse_intent(req.provider, req.transcript, user_context,
                               t.intent)
        result == process_intent(parsed.intent, p.id, t.quote, row, entries)
    IN [result EXCEPT !.op = "process_voice_input", !.llm = parsed.llm,
                      !.parsed = parsed.intent,
                      !.calls = @ \cup {"parse_intent", "process_intent"}]

\* POST /webhooks/twilio/voice/process: the first call_log.add_event is made
\* on what get_call_log returned
ProcessVoiceInput(s, req, t) ==
    /\ pc[s] = "idle"
    /\ req.registered
    /\ IF get_call_log(req.call_sid) = "None"
       THEN /\ reply' = [NoReply EXCEPT !.op = "process_voice_input",
                                        !.error = "AttributeError",
                                        !.request = req,
                                        !.user = req.profile.id,
                                        !.intent = t.intent,
                                        !.quote = t.quote]
            /\ pc' = [pc EXCEPT ![s] = "raised"]
            /\ UNCHANGED <<pending, sessionStore>>
       ELSE /\ reply' = [voice_turn(req, t, get_balance(s, req.profile.id),
                                    LedgerView(s))
                            EXCEPT !.request = req,
                                   !.user = req.profile.id,
                                   !.intent = t.intent, !.quote = t.quote]
            /\ sessionStore' =
                  IF reply'.requires_confirmation
                  THEN store_session_context(sessionStore, req.call_sid,
                                             reply'.context)
                  ELSE sessionStore
            /\ pc' = [pc EXCEPT ![s] = "answered"]
            /\ UNCHANGED pending
    /\ UNCHANGED <<users, ledger, rowLock, wrows, wentries, call, run,
                   nextTxn, nOps, nOrders, ev>>
    /\ UNCHANGED <<probe, events, detector, voice, pharmacy>>
    /\ UNCHANGED aside

\* POST /api/voice/simulate-call: the user is looked up, the context built,
\* the intent parsed and handed to process_intent with a fresh call log
simulate_call(req, t, row, entries) ==
    LET p == req.profile
        user_context == simulate_call_user_context(p)
        parsed == parse_intent(req.provider, req.transcript, user_context,
                               t.intent)
        result == process_intent(parsed.intent, p.id, t.quote, row, entries)
    IN [result EXCEPT !.op = "simulate_call", !.llm = parsed.llm,
                      !.parsed = parsed.intent,
                      !.calls = @ \cup {"parse_intent", "process_intent"}]

SimulateCall(s, req, t) ==
    /\ pc[s] = "idle"
    /\ IF ~req.registered
       THEN /\ reply' = [NoReply EXCEPT !.op = "simulate_call",
                                        !.error = "HTTP 404",
                                        !.request = req]
            /\ pc' = [pc EXCEPT ![s] = "raised"]
       ELSE /\ reply' = [simulate_call(req, t,
                                       get_balance(s, req.profile.id),
                                       LedgerView(s))
                            EXCEPT !.request = req,
                                   !.user = req.profile.id,
                                   !.intent = t.intent, !.quote = t.quote]
            /\ pc' = [pc EXCEPT ![s] = "answered"]
    /\ UNCHANGED <<users, ledger, rowLock, wrows, wentries, call, run,
                   nextTxn, nOps, nOrders, ev>>
    /\ UNCHANGED <<probe, pending>>
    /\ UNCHANGED devices

\* the types of an inbound message: a payload that cannot be read, a
\* payload without messages, a text, a voice note, a picture
MessageTypes == {"malformed", "no_message", "text", "audio", "image"}

Status(req, status, calls, llm) ==
    [NoReply EXCEPT !.op = "handle_whatsapp_message", !.status = status,
                    !.calls = calls, !.llm = llm, !.request = req]

\* mutant: a text that asks for medicine is handed to the orchestrator
handle_whatsapp_message_Orders(req, answer) ==
    Status(req, "processed",
           {"parse_intent", "process_intent", "execute_confirmed_order"},
           NoLlm)

\* POST /webhooks/whatsapp/message; any exception is answered with the
\* status error
handle_whatsapp_message(req, answer) ==
    LET p == req.profile
        user_context == whatsapp_build_user_context(p)
        parsed == parse_intent(req.provider, req.transcript, user_context,
                               answer)
    IN IF req.type = "malformed"
       THEN Status(req, "error", {}, NoLlm)
       ELSE IF req.type = "no_message"
       THEN Status(req, "no_message", {}, NoLlm)
       ELSE IF ~req.registered
       THEN Status(req, IF req.network THEN "unregistered_user" ELSE "error",
                   {"get_user_by_whatsapp", "send_whatsapp_reply"}, NoLlm)
       ELSE IF req.type = "audio"
       THEN IF ~req.network
            THEN Status(req, "error",
                        {"get_user_by_whatsapp", "get_whatsapp_media_url"},
                        NoLlm)
            ELSE Status(req, "processed",
                        {"get_user_by_whatsapp", "get_whatsapp_media_url",
                         "process_audio_file", "build_user_context",
                         "parse_intent", "build_whatsapp_response",
                         "send_whatsapp_reply"},
                        parsed.llm)
       ELSE IF req.type = "text"
       THEN Status(req, IF req.network THEN "processed" ELSE "error",
                   {"get_user_by_whatsapp", "build_user_context",
                    "parse_intent", "build_whatsapp_response",
                    "send_whatsapp_reply"},
                   parsed.llm)
       ELSE Status(req, "unsupported_type", {"get_user_by_whatsapp"}, NoLlm)

HandleWhatsappMessage(s, req, answer) ==
    /\ pc[s] = "idle"
    /\ reply' = [handle_whatsapp_message(req, answer)
                    EXCEPT !.intent = answer]
    /\ pc' = [pc EXCEPT ![s] = "answered"]
    /\ UNCHANGED <<users, ledger, rowLock, wrows, wentries, call, run,
                   nextTxn, nOps, nOrders, ev>>
    /\ UNCHANGED <<probe, pending>>
    /\ UNCHANGED devices

\* the requests of each channel; a sender that is not registered has no
\* users row, and only a text or a voice note has words
VoiceRequests ==
    {Request(c, p, TRUE, "speech", tr, TRUE, cf) :
        c \in CallSids, p \in Profiles, tr \in Transcripts,
        cf \in {"ok", "unconfigured"}}

SimulateRequests ==
    {Request("none", p, TRUE, "simulate", tr, TRUE, cf) :
        p \in Profiles, tr \in Transcripts, cf \in Providers}
    \cup {Request("none", NoProfile, FALSE, "simulate", tr, TRUE, "ok") :
             tr \in Transcripts}

WhatsappRequests ==
    {Request("none", p, TRUE, ty, tr, n, cf) :
        p \in Profiles, ty \in {"text", "audio"}, tr \in Transcripts,
        n \in BOOLEAN, cf \in {"ok", "unconfigured"}}
    \cup {Request("none", p, TRUE, "image", <<>>, TRUE, "ok") :
             p \in Profiles}
    \cup {Request("none", NoProfile, FALSE, ty, <<>>, n, "ok") :
             ty \in {"text", "audio", "image"}, n \in BOOLEAN}
    \cup {Request("none", NoProfile, FALSE, ty, <<>>, TRUE, "ok") :
             ty \in {"malformed", "no_message"}}

NextChannels ==
    \/ \E req \in VoiceRequests, t \in ChannelTurns :
          ProcessVoiceInput(LedgerSession, req, t)
    \/ \E c \in CallSids, r \in Replies :
          HandleConfirmation(LedgerSession, [r EXCEPT !.call_sid = c])
    \/ \E req \in SimulateRequests, t \in ChannelTurns :
          SimulateCall(LedgerSession, req, t)
    \/ \E req \in WhatsappRequests, answer \in ChannelIntents :
          HandleWhatsappMessage(LedgerSession, req, answer)
    \/ Commit(LedgerSession)
    \/ Rollback(LedgerSession)

SpecChannels == Init /\ [][NextChannels]_vars

\* ------------------------------------- one caller: conversation rounds
\* the wallet as seeded, or topped up to 6000 rupees before the day began
FundedBalances == {SeedBalance, 600000}

InitIntent ==
    /\ \E b \in FundedBalances : Seeded(b)
    /\ probe = NoProbe

NextIntent ==
    \/ \E u \in Users, t \in Turns :
          ProcessIntent(LedgerSession, u, t.intent, t.quote)
    \/ \E r \in Replies : HandleConfirmation(LedgerSession, r)
    \/ ConfirmedOrder(LedgerSession)
    \/ OrderLock(LedgerSession)
    \/ \E o \in PlaceOutcomes, i \in PharmacyOrderIds :
          PlaceOrder(LedgerSession, o, i)
    \/ OrderConfirm(LedgerSession)
    \/ OrderRefund(LedgerSession)
    \/ Commit(LedgerSession)

SpecIntent == InitIntent /\ [][NextIntent]_vars

\* ------------------------------------------------ the rules tried alone
\* amounts of 1000, 2000 and 2500 rupees; wallets of 10000 rupees, of 1000
\* rupees with 600 locked, and of 1500 rupees; 0, 3500 and 4500 rupees spent
ProbeAmounts == {100000, 200000, 250000}
ProbeWallets == {Row(1000000, 0), Row(SeedBalance, 60000), Row(150000, 0)}
ProbeSpent == {0, 350000, 450000}

Probes ==
    {[amount |-> a, current_balance |-> w.current_balance,
      locked_balance |-> w.locked_balance, daily_spent |-> d, intent |-> i] :
        a \in ProbeAmounts, w \in ProbeWallets, d \in ProbeSpent,
        i \in Intents}

InitRules ==
    /\ Seeded(SeedBalance)
    /\ probe \in Probes

ValidateTransaction ==
    /\ LET v == validate_transaction(probe.amount, probe.current_balance,
                                     probe.locked_balance, probe.daily_spent)
       IN reply' = [NoReply EXCEPT !.op = "validate_transaction",
                                   !.valid = v.valid, !.error = v.error]
    /\ UNCHANGED <<users, ledger, rowLock, wrows, wentries, pc, call, run,
                   nextTxn, nOps, nOrders, ev, probe, pending>>
    /\ UNCHANGED devices

NeedsClarification ==
    /\ reply' = [NoReply EXCEPT !.op = "needs_clarification",
                                !.valid = needs_clarification(probe.intent)]
    /\ UNCHANGED <<users, ledger, rowLock, wrows, wentries, pc, call, run,
                   nextTxn, nOps, nOrders, ev, probe, pending>>
    /\ UNCHANGED devices

ShouldRefuse ==
    /\ reply' = [NoReply EXCEPT !.op = "should_refuse",
                                !.valid = should_refuse(probe.intent)]
    /\ UNCHANGED <<users, ledger, rowLock, wrows, wentries, pc, call, run,
                   nextTxn, nOps, nOrders, ev, probe, pending>>
    /\ UNCHANGED devices

NextRules ==
    \/ ValidateTransaction
    \/ NeedsClarification
    \/ ShouldRefuse

SpecRules == InitRules /\ [][NextRules]_vars

\* ------------------------------------------- the devices tried alone
\* a handler logs one more event on the packet of its call
AddEvent(event_type, data) ==
    /\ Len(events) < MaxEvents
    /\ events' = add_event(events, event_type, data)
    /\ UNCHANGED <<detector, voice, pharmacy, sessionStore>>
    /\ UNCHANGED aside
    /\ UNCHANGED <<probe, reply, pending>>
    /\ UNCHANGED back

NextCallLog ==
    \E t \in LogEventTypes, d \in LogData : AddEvent(t, d)

SpecCallLog == Init /\ [][NextCallLog]_vars

\* the time that passes between two chunks, in half seconds
Gaps == {1, 2, 3}

\* the detector is fed the next chunk
ProcessChunk(is_sil, gap) ==
    /\ Len(detector.fed) < MaxChunks
    /\ detector.now + gap <= MaxClock
    /\ LET now == detector.now + gap
       IN detector' = [process_chunk(detector, now, is_sil) EXCEPT
                         !.now = now,
                         !.fed = Append(@, Fed(now, is_sil))]
    /\ UNCHANGED <<events, voice, pharmacy, sessionStore>>
    /\ UNCHANGED aside
    /\ UNCHANGED <<probe, reply, pending>>
    /\ UNCHANGED back

\* the detector is reset for the next turn
DetectorReset ==
    /\ detector.fed # <<>>
    /\ detector' = [reset(detector) EXCEPT
                      !.fed = <<>>, !.result = Signal(FALSE, 0, FALSE)]
    /\ UNCHANGED <<events, voice, pharmacy, sessionStore>>
    /\ UNCHANGED aside
    /\ UNCHANGED <<probe, reply, pending>>
    /\ UNCHANGED back

NextDetector ==
    \/ \E is_sil \in BOOLEAN, gap \in Gaps : ProcessChunk(is_sil, gap)
    \/ DetectorReset

SpecDetector == Init /\ [][NextDetector]_vars

\* the stream yields one more chunk; a break is followed at once by the
\* lines after the loop
VoiceChunk(kind, gap, text, confidence) ==
    /\ voice.phase \in {"new", "reading"}
    /\ Len(voice.chunks) < MaxChunks
    /\ voice.now + gap <= MaxClock
    /\ LET v == Buffered(voice, voice.now + gap, kind)
       IN voice' = IF v.broke THEN Transcribed(v, text, confidence) ELSE v
    /\ UNCHANGED <<events, detector, pharmacy, sessionStore>>
    /\ UNCHANGED aside
    /\ UNCHANGED <<probe, reply, pending>>
    /\ UNCHANGED back

\* the stream ends
VoiceEnd(text, confidence) ==
    /\ voice.phase \in {"new", "reading"}
    /\ voice' = Transcribed(voice, text, confidence)
    /\ UNCHANGED <<events, detector, pharmacy, sessionStore>>
    /\ UNCHANGED aside
    /\ UNCHANGED <<probe, reply, pending>>
    /\ UNCHANGED back

NextVoice ==
    \/ \E kind \in ChunkKinds, gap \in Gaps, text \in SttTexts,
          confidence \in SttConfidences :
          VoiceChunk(kind, gap, text, confidence)
    \/ \E text \in SttTexts, confidence \in SttConfidences :
          VoiceEnd(text, confidence)

SpecVoice == Init /\ [][NextVoice]_vars

\* the mock pharmacy is asked to place an order
MockPlaceOrder(outage, items, order_id) ==
    /\ pharmacy.calls < MaxPlaced
    /\ pharmacy' = [place_order(pharmacy, outage, items, order_id)
                       EXCEPT !.calls = pharmacy.calls + 1]
    /\ UNCHANGED <<events, detector, voice, sessionStore>>
    /\ UNCHANGED aside
    /\ UNCHANGED <<probe, reply, pending>>
    /\ UNCHANGED back

NextPharmacy ==
    \E outage \in BOOLEAN, items \in ItemLists, order_id \in MockOrderIds :
        MockPlaceOrder(outage, items, order_id)

SpecPharmacy == Init /\ [][NextPharmacy]_vars

\* one turn of the while loop of clarify on the result of the next audio
\* segment: a confident result is returned, another counts as an attempt,
\* and after the last attempt clarify returns None
\* mutant: a result at exactly the threshold is not confident enough
clarify_Above(f, result) ==
    IF result.confidence > CONFIDENCE_THRESHOLD
    THEN [f EXCEPT !.results = Append(@, result), !.returned = "text",
                   !.value = result.text]
    ELSE [f EXCEPT !.results = Append(@, result), !.attempt = @ + 1,
                   !.returned = IF f.attempt + 1 < max_attempts
                                THEN "running" ELSE "None"]

clarify(f, result) ==
    IF result.confidence >= CONFIDENCE_THRESHOLD
    THEN [f EXCEPT !.results = Append(@, result), !.returned = "text",
                   !.value = result.text]
    ELSE [f EXCEPT !.results = Append(@, result), !.attempt = @ + 1,
                   !.returned = IF f.attempt + 1 < max_attempts
                                THEN "running" ELSE "None"]

\* the confidences process_audio_stream is tried with
FlowConfidences == {0, 700, 849, 850, 900}

\* clarify is called again on the stream
ClarifyCall ==
    /\ flow.returned # "running"
    /\ flow' = NewFlow
    /\ UNCHANGED <<events, detector, voice, pharmacy, sessionStore, proto,
                   outbox>>
    /\ UNCHANGED <<probe, reply, pending>>
    /\ UNCHANGED back

\* the loop of clarify awaits process_audio_stream and looks at its result
ClarifyTurn(text, confidence) ==
    /\ flow.returned = "running"
    /\ flow.attempt < max_attempts
    /\ flow' = clarify(flow, TranscriptionResult(text, confidence, TRUE))
    /\ UNCHANGED <<events, detector, voice, pharmacy, sessionStore, proto,
                   outbox>>
    /\ UNCHANGED <<probe, reply, pending>>
    /\ UNCHANGED back

NextFlow ==
    \/ ClarifyCall
    \/ \E text \in SttTexts, confidence \in FlowConfidences :
          ClarifyTurn(text, confidence)

SpecFlow == Init /\ [][NextFlow]_vars

\* ------------------------------------------ wallet routes: POST /topup
\* spaces and hyphens are taken out, and a number that does not start with
\* +91 becomes +91 and its last ten digits: either way the result is +91
\* and the ten digits
normalize_phone(p) == Phone("+91", p.digits, FALSE)

\* users.phone_number and users.caregiver_phone: every user is registered
\* under its own number, and the first has a caregiver on file
phone_number(u) == Phone("+91", <<"user", u>>, FALSE)

caregiver_phone(u) ==
    IF u = 1 THEN Phone("+91", <<"caregiver", u>>, FALSE) ELSE NoPhone

\* select(User).where(User.phone_number == phone): the user or 0
user_by_phone(phone) ==
    IF \E u \in Users : phone_number(u) = phone
    THEN CHOOSE u \in Users : phone_number(u) = phone
    ELSE 0

\* the caregiver check: made only when a number was supplied and one is on
\* file
caregiver_rejected(supplied, on_file) ==
    /\ supplied # NoPhone
    /\ on_file # NoPhone
    /\ normalize_phone(supplied) # on_file

\* mutant: the rupees are credited as they are
to_paise_Same(rupees) == rupees

\* amount_paise = request.amount * 100
to_paise(rupees) == rupees * 100

TopUp(req, error, new_balance, txn) ==
    [NoReply EXCEPT !.op = "add_money_to_wallet", !.error = error,
                    !.success = (error = "none"),
                    !.new_balance = new_balance,
                    !.topup = [req EXCEPT !.transaction_id = txn]]

\* POST /api/wallet/topup: the user is looked up by the normalised number,
\* the caregiver number checked, the credit made and committed
AddMoneyToWallet(s, req) ==
    /\ pc[s] = "idle"
    /\ LET u == user_by_phone(normalize_phone(req.phone_number))
       IN IF u = 0
          THEN /\ reply' = TopUp(req, "HTTP 404", -1, 0)
               /\ pc' = [pc EXCEPT ![s] = "raised"]
               /\ UNCHANGED <<users, ledger, nextTxn, nOps>>
          ELSE IF caregiver_rejected(req.caregiver_phone, caregiver_phone(u))
          THEN /\ reply' = TopUp(req, "HTTP 403", -1, 0)
               /\ pc' = [pc EXCEPT ![s] = "raised"]
               /\ UNCHANGED <<users, ledger, nextTxn, nOps>>
          ELSE /\ CanLockRow(s, u)
               /\ nOps < MaxOps
               /\ nextTxn <= MaxTxn
               /\ LET new_row == CreditedRow(users[u], to_paise(req.amount))
                  IN /\ users' = [users EXCEPT ![u] = new_row]
                     /\ ledger' = Append(ledger,
                            LedgerEntry(nextTxn, u, to_paise(req.amount),
                                        "CREDIT", new_row.current_balance))
                     /\ reply' = TopUp(req, "none",
                                       new_row.current_balance \div 100,
                                       nextTxn)
               /\ nextTxn' = nextTxn + 1
               /\ nOps' = nOps + 1
               /\ pc' = [pc EXCEPT ![s] = "answered"]
    /\ UNCHANGED <<rowLock, wrows, wentries, call, run, nOrders, ev>>
    /\ UNCHANGED <<probe, pending>>
    /\ UNCHANGED devices

\* the numbers a top-up is asked for: each user's number and one nobody is
\* registered under, with and without the country code and spaces
WrittenPhones(digits) ==
    {Phone("+91", digits, FALSE), Phone("", digits, TRUE)}

TopUpPhones ==
    UNION {WrittenPhones(<<"user", u>>) : u \in Users \cup {0}}

SuppliedCaregivers ==
    {NoPhone} \cup WrittenPhones(<<"caregiver", 1>>)
              \cup {Phone("+91", <<"caregiver", 0>>, FALSE)}

\* rupees, within the 1..10000 the request model accepts
TopUpAmounts == {500, 10000}

TopUpRequests ==
    {[NoTopUp EXCEPT !.phone_number = p, !.amount = a,
                     !.caregiver_phone = c] :
        p \in TopUpPhones, a \in TopUpAmounts, c \in SuppliedCaregivers}

\* the session that serves the top-ups, beside one that locks money for
\* an order
TopUpSession == 2

LockedMeanwhile == {a \in Amounts : ~ExceedsLimit(a)}

NextTopUp ==
    \/ \E req \in TopUpRequests : AddMoneyToWallet(TopUpSession, req)
    \/ Commit(TopUpSession)
    \/ Rollback(TopUpSession)
    \/ Begin(LedgerSession)
    \/ \E u \in Users, a \in LockedMeanwhile :
          WalletCheckAndLock(LedgerSession, u, a)
    \/ Commit(LedgerSession)

SpecTopUp == Init /\ [][NextTopUp]_vars

\* ----------------------------------------- the prototype service: /speak
\* app/wallet.py: MAX_TXN, in rupees
MAX_TXN == 2000

\* what is posted to /speak
ProtoTexts == {"medicine", "tablet", "hello"}

\* app/intent.py: the words medicine and tablet give an order at 0.92,
\* anything else UNKNOWN at 0.3
proto_parse_intent(text) ==
    IF text \in {"medicine", "tablet"}
    THEN [intent_type |-> "ORDER_MEDICINE", confidence_score |-> 920]
    ELSE [intent_type |-> "UNKNOWN", confidence_score |-> 300]

\* the prices place_order of the prototype may answer with, in rupees
ProtoPrices == {300, 600, 1200, 2500}

\* handle: the intent is parsed; below 0.85 the refusal is spoken and the
\* request is over; an order is placed and its price handed to debit, which
\* rejects an amount above the cap before it reads anything
ProtoSpeak(t, text, price) ==
    /\ proto.thread[t].at = "idle"
    /\ LET intent == proto_parse_intent(text)
       IN proto' = [proto EXCEPT !.thread[t] =
             IF intent.confidence_score < 850
                \/ intent.intent_type # "ORDER_MEDICINE"
             THEN [at |-> "idle", amount |-> 0, balance |-> 0, ok |-> FALSE]
             ELSE IF price > MAX_TXN
             THEN [at |-> "idle", amount |-> price, balance |-> 0,
                   ok |-> FALSE]
             ELSE [at |-> "read", amount |-> price, balance |-> 0,
                   ok |-> FALSE]]
    /\ UNCHANGED <<events, detector, voice, pharmacy, sessionStore, flow,
                   outbox>>
    /\ UNCHANGED <<probe, reply, pending>>
    /\ UNCHANGED back

\* debit: get_balance reads the balance on a connection of its own, and an
\* amount above it is rejected
ProtoRead(t) ==
    /\ proto.thread[t].at = "read"
    /\ proto' = [proto EXCEPT !.thread[t] =
          IF proto.balance < @.amount
          THEN [@ EXCEPT !.at = "idle", !.balance = proto.balance]
          ELSE [@ EXCEPT !.at = "write", !.balance = proto.balance]]
    /\ UNCHANGED <<events, detector, voice, pharmacy, sessionStore, flow,
                   outbox>>
    /\ UNCHANGED <<probe, reply, pending>>
    /\ UNCHANGED back

\* debit: in one transaction the amount is taken off the balance as it is
\* then, and a DEBIT row is inserted
ProtoWrite(t) ==
    /\ proto.thread[t].at = "write"
    /\ proto' = [proto EXCEPT
          !.balance = @ - proto.thread[t].amount,
          !.ledger = Append(@, [amount |-> proto.thread[t].amount,
                                type |-> "DEBIT",
                                before |-> proto.balance]),
          !.thread[t] = [@ EXCEPT !.at = "idle", !.ok = TRUE]]
    /\ UNCHANGED <<events, detector, voice, pharmacy, sessionStore, flow,
                   outbox>>
    /\ UNCHANGED <<probe, reply, pending>>
    /\ UNCHANGED back

NextProto ==
    \/ \E t \in Sessions, text \in ProtoTexts, price \in ProtoPrices :
          ProtoSpeak(t, text, price)
    \/ \E t \in Sessions : ProtoRead(t)
    \/ \E t \in Sessions : ProtoWrite(t)

SpecProto == Init /\ [][NextProto]_vars

\* ================================================================ claims
Has(trace, name) == \E i \in DOMAIN trace : trace[i] = name

Count(trace, names) == Cardinality({i \in DOMAIN trace : trace[i] \in names})

PlaceSteps == {"place_success", "place_failed"}

\* C1: in every committed state every user has
\* current_balance >= locked_balance >= 0
C1_CommittedBalancesOrdered ==
    \A u \in Users :
        /\ users[u].current_balance >= users[u].locked_balance
        /\ users[u].locked_balance >= 0

\* C2: once a run whose lock succeeded and whose pharmacy call failed or
\* raised has returned, auto_refund was called exactly once, with the
\* transaction id the lock returned; the result is a failure; and the user's
\* current_balance and locked_balance are what they were before the attempt
C2_FailedOrderRefunded ==
    \A s \in Sessions :
        (Has(run[s].trace, "lock_ok") /\ run[s].pharmacy = "failed")
        => /\ pc[s] # "raised"
           /\ pc[s] = "returned" =>
                /\ Count(run[s].trace, {"refund_ok", "refund_error"}) = 1
                /\ Has(run[s].trace, "refund_ok")
                /\ run[s].refund_txn = run[s].transaction_id
                /\ run[s].transaction_id # NoTxn
                /\ Count(run[s].trace, {"debit_ok", "debit_error"}) = 0
                /\ run[s].result.returned
                /\ ~run[s].result.success
           /\ pc[s] = "returned" =>
                /\ View(s, run[s].user).current_balance =
                       run[s].pre.current_balance
                /\ View(s, run[s].user).locked_balance =
                       run[s].pre.locked_balance

C2_Witness ==
    \E s \in Sessions :
        /\ pc[s] = "returned"
        /\ run[s].pharmacy = "failed"
        /\ Has(run[s].trace, "refund_ok")
        /\ run[s].pre = Row(SeedBalance, 0)

\* C3: in every run the pharmacy call comes only after a successful
\* check_and_lock, confirm_debit only after a successful place_order, and
\* auto_refund only after the outcome of place_order is known
C3_StepsOrdered ==
    \A s \in Sessions :
        \A i \in DOMAIN run[s].trace :
            LET t == run[s].trace
                Before(names) == \E j \in 1..(i - 1) : t[j] \in names
            IN /\ t[i] \in PlaceSteps => Before({"lock_ok"})
               /\ t[i] \in {"debit_ok", "debit_error"} =>
                      Before({"place_success"})
               /\ t[i] \in {"refund_ok", "refund_error"} =>
                      Before(PlaceSteps)
               /\ t[i] \in {"lock_ok", "lock_insufficient", "lock_limit"} =>
                      i = 1

C3_Witness ==
    \E s \in Sessions :
        run[s].trace = <<"lock_ok", "place_success", "debit_ok">>

\* C5: once a run whose lock succeeded and whose pharmacy call succeeded has
\* returned, confirm_debit was called once, for the locked transaction id;
\* the Order is SUCCESS with the pharmacy's order id; the result is a success
\* with an order id and new_balance = the balance before minus total_price;
\* locked_balance is back at its value before the attempt
C5_SuccessfulOrderDebited ==
    \A s \in Sessions :
        (Has(run[s].trace, "lock_ok") /\ run[s].pharmacy = "success"
            /\ pc[s] = "returned")
        => /\ Count(run[s].trace, {"debit_ok", "debit_error"}) = 1
           /\ Has(run[s].trace, "debit_ok")
           /\ run[s].debit_txn = run[s].transaction_id
           /\ run[s].transaction_id # NoTxn
           /\ run[s].execution_status = "SUCCESS"
           /\ run[s].external_order_id = run[s].pharmacy_order_id
           /\ run[s].external_order_id # 0
           /\ run[s].result.returned
           /\ run[s].result.success
           /\ run[s].result.order_id # 0
           /\ run[s].result.new_balance =
                  run[s].pre.current_balance - run[s].total
           /\ pc[s] = "returned" =>
                /\ View(s, run[s].user).current_balance =
                       run[s].pre.current_balance - run[s].total
                /\ View(s, run[s].user).locked_balance =
                       run[s].pre.locked_balance

C5_Witness ==
    \E s \in Sessions :
        /\ pc[s] = "returned"
        /\ run[s].result.success
        /\ run[s].result.new_balance = SeedBalance - 60000

\* the hard cap of 2000 rupees in minor units, as the claims state it
CapPaise == 200000

\* what one flushed operation of session s adds to the ledger: exactly the
\* entry e, after everything that was there
AppendsOnly(s, e) ==
    /\ wentries'[s] = Append(wentries[s], e)
    /\ ledger' = ledger
    /\ \A t \in Sessions \ {s} : wentries'[t] = wentries[t]

\* nobody's row but (s, u) is touched
OthersUntouched(s, u) ==
    /\ users' = users
    /\ \A t \in Sessions, v \in Users :
           (t # s \/ v # u) => ViewNext(t, v) = View(t, v)

\* nothing of the wallet changes at all
WalletUnchanged ==
    /\ UNCHANGED <<users, ledger, wrows, wentries, rowLock>>
    /\ \A t \in Sessions, v \in Users : ViewNext(t, v) = View(t, v)

\* the amounts of the LOCK entries session s can see for (txn, u)
LockAmounts(s, txn, u) ==
    {LedgerView(s)[i].amount : i \in {k \in DOMAIN LedgerView(s) :
        /\ LedgerView(s)[k].transaction_id = txn
        /\ LedgerView(s)[k].transaction_type = "LOCK"
        /\ LedgerView(s)[k].user_id = u}}

\* C4 as stated: of two concurrent check_and_lock calls on one user whose
\* amounts each fit the available balance but not together, at most one
\* succeeds: a call never succeeds when a call that was in progress at the
\* same time has succeeded
C4_AtMostOneSucceeds ==
    \A s \in Sessions :
        Has(run[s].trace, "lock_ok") =>
            ~ \E a1 \in run[s].rivals :
                /\ a1 <= run[s].avail0
                /\ run[s].total <= run[s].avail0
                /\ a1 + run[s].total > run[s].avail0

\* C4 as amended: the balance read of a check_and_lock call happens only
\* when every other unit of work that locked funds of that user has
\* completed, and the call succeeds exactly when the available balance
\* committed by then covers the amount (InsufficientBalanceError otherwise)
C4_ReadAfterUnitOfWork ==
    [][\A s \in Sessions :
          OrderLock(s) =>
            LET u == call[s].user
                a == call[s].amount
            IN /\ \A t \in Sessions \ {s} :
                      ~ /\ pc[t] \in {"pharmacy", "confirm", "refund",
                                      "returned", "raised"}
                        /\ run[t].user = u
                        /\ run[t].transaction_id # NoTxn
               /\ \A t \in Sessions \ {s} :
                      \A i \in DOMAIN wentries[t] :
                          wentries[t][i].user_id # u
               /\ ev'.outcome = "ok" <=>
                      a <= users[u].current_balance - users[u].locked_balance
               /\ ev'.outcome # "ok" =>
                      ev'.outcome = "InsufficientBalanceError"]_vars

C4_Witness ==
    \E s \in Sessions :
        /\ run[s].rivals # {}
        /\ Has(run[s].trace, "lock_insufficient")
        /\ run[s].total <= run[s].avail0

\* C6: a successful check_and_lock(user, A) adds A to locked_balance, leaves
\* current_balance alone, appends exactly one LOCK entry of amount A with
\* the returned transaction id, and touches no other user
C6_LockFrame ==
    [][\A s \in Sessions, u \in Users, a \in Amounts :
          (/\ WalletCheckAndLock(s, u, a)
           /\ a <= CapPaise
           /\ a <= View(s, u).current_balance - View(s, u).locked_balance)
          => /\ ev'.outcome = "ok"
             /\ ev'.txn # NoTxn
             /\ ViewNext(s, u).locked_balance = View(s, u).locked_balance + a
             /\ ViewNext(s, u).current_balance = View(s, u).current_balance
             /\ AppendsOnly(s, LedgerEntry(ev'.txn, u, a, "LOCK",
                                           View(s, u).current_balance))
             /\ \A i \in DOMAIN LedgerView(s) :
                    LedgerView(s)[i].transaction_id # ev'.txn
             /\ OthersUntouched(s, u)]_vars

C6_Witness ==
    /\ ev.op = "check_and_lock"
    /\ ev.outcome = "ok"
    /\ View(ev.sess, ev.user) = Row(SeedBalance, 60000)

\* C7: confirm_debit(txn, user) for an existing LOCK entry of amount A takes
\* A off current_balance and off locked_balance, appends exactly one DEBIT
\* entry of amount A whose balance_after is the new current_balance, and
\* returns true
C7_DebitEffect ==
    [][\A s \in Sessions, u \in Users, t \in TxnIds :
          WalletConfirmDebit(s, t, u) =>
            \A a \in LockAmounts(s, t, u) :
             /\ ev'.outcome = "ok"
             /\ ViewNext(s, u).current_balance =
                    View(s, u).current_balance - a
             /\ ViewNext(s, u).locked_balance = View(s, u).locked_balance - a
             /\ AppendsOnly(s, LedgerEntry(t, u, a, "DEBIT",
                                   ViewNext(s, u).current_balance))
             /\ OthersUntouched(s, u)]_vars

\* lock followed by confirm took the user from (C, 0) to (C - A, 0)
C7_Witness ==
    /\ ev.op = "confirm_debit"
    /\ ev.outcome = "ok"
    /\ View(ev.sess, ev.user) = Row(SeedBalance - 60000, 0)

\* C8: auto_refund(txn, user, reason) for an existing LOCK entry of amount A
\* takes A off locked_balance, leaves current_balance alone, appends exactly
\* one REFUND entry of amount A, and returns true
C8_RefundFrame ==
    [][\A s \in Sessions, u \in Users, t \in TxnIds :
          WalletAutoRefund(s, t, u) =>
            \A a \in LockAmounts(s, t, u) :
             /\ ev'.outcome = "ok"
             /\ ViewNext(s, u).current_balance = View(s, u).current_balance
             /\ ViewNext(s, u).locked_balance = View(s, u).locked_balance - a
             /\ AppendsOnly(s, LedgerEntry(t, u, a, "REFUND",
                                   View(s, u).current_balance))
             /\ OthersUntouched(s, u)]_vars

\* lock followed by refund took the user from (C, 0) back to (C, 0)
C8_Witness ==
    /\ ev.op = "auto_refund"
    /\ ev.outcome = "ok"
    /\ View(ev.sess, ev.user) = Row(SeedBalance, 0)
    /\ Len(LedgerView(ev.sess)) = NumUsers + 2

\* C9: check_and_lock with an amount above the cap raises
\* TransactionLimitError whatever the balance, takes no row lock, appends no
\* ledger entry and changes no balance
C9_LimitFirst ==
    [][\A s \in Sessions, u \in Users, a \in Amounts :
          (WalletCheckAndLock(s, u, a) /\ a > CapPaise)
          => /\ ev'.outcome = "TransactionLimitError"
             /\ WalletUnchanged]_vars

\* the cap refuses an amount the balance would have covered
C9_Witness ==
    /\ ev.op = "check_and_lock"
    /\ ev.outcome = "TransactionLimitError"
    /\ available(View(ev.sess, ev.user)) >= ev.amount

\* C10: check_and_lock with an amount within the cap but above
\* current_balance - locked_balance raises InsufficientBalanceError and
\* leaves the wallet as it was
C10_InsufficientNoChange ==
    [][\A s \in Sessions, u \in Users, a \in Amounts :
          (/\ WalletCheckAndLock(s, u, a)
           /\ a <= CapPaise
           /\ a > View(s, u).current_balance - View(s, u).locked_balance)
          => /\ ev'.outcome = "InsufficientBalanceError"
             /\ WalletUnchanged]_vars

\* 600 rupees asked of a balance of 1000 rupees of which 600 are locked
C10_Witness ==
    /\ ev.op = "check_and_lock"
    /\ ev.outcome = "InsufficientBalanceError"
    /\ ev.amount = 60000
    /\ View(ev.sess, ev.user) = Row(SeedBalance, 60000)

\* ------------------------------------------------- the ledger as a journal
IsPrefix(a, b) == Len(a) <= Len(b) /\ SubSeq(b, 1, Len(a)) = a

\* one WalletLedger operation of session s
WalletOp(s) ==
    \/ \E u \in Users, a \in Amounts : WalletCheckAndLock(s, u, a)
    \/ \E u \in Users, t \in TxnIds : WalletConfirmDebit(s, t, u)
    \/ \E u \in Users, t \in TxnIds : WalletAutoRefund(s, t, u)
    \/ \E u \in Users, a \in CreditAmounts : WalletAddCredit(s, u, a)

\* C11: no WalletLedger operation modifies or removes a ledger entry: it
\* appends exactly one entry when it succeeds and none when it fails, so the
\* ledger it leaves has the ledger it found as a prefix; the committed
\* ledger only ever grows at its end
C11_AppendOnly ==
    [][/\ IsPrefix(ledger, ledger')
       /\ \A s \in Sessions :
             WalletOp(s) =>
               /\ IsPrefix(LedgerView(s), LedgerView(s)')
               /\ Len(LedgerView(s)') - Len(LedgerView(s)) =
                      (IF ev'.outcome = "ok" THEN 1 ELSE 0)
               /\ \A t \in Sessions \ {s} : wentries'[t] = wentries[t]]_vars

\* a second entry was appended behind an earlier one
C11_Witness ==
    /\ ev.op = "confirm_debit"
    /\ ev.outcome = "ok"
    /\ Len(wentries[ev.sess]) = 2
    /\ wentries[ev.sess][1].transaction_type = "LOCK"

RECURSIVE SumAmounts(_, _, _)
\* the sum of the amounts of user u's entries of the given types
SumAmounts(entries, u, types) ==
    IF entries = <<>> THEN 0
    ELSE (IF Head(entries).user_id = u
             /\ Head(entries).transaction_type \in types
          THEN Head(entries).amount ELSE 0)
         + SumAmounts(Tail(entries), u, types)

\* C12 as stated: the cached current_balance is the sum of the user's
\* CREDIT and REFUND entries minus the sum of the DEBIT entries
C12_BalanceIsCreditsRefundsLessDebits ==
    \A u \in Users :
        users[u].current_balance =
            SumAmounts(ledger, u, {"CREDIT", "REFUND"})
            - SumAmounts(ledger, u, {"DEBIT"})

\* C12 as amended: the cached current_balance is the sum of the user's
\* CREDIT entries minus the sum of the DEBIT entries, in the committed
\* tables and in what every session sees; REFUND entries do not count
C12_BalanceIsCreditsLessDebits ==
    /\ \A u \in Users :
          users[u].current_balance =
              SumAmounts(ledger, u, {"CREDIT"})
              - SumAmounts(ledger, u, {"DEBIT"})
    /\ \A s \in Sessions, u \in Users :
          View(s, u).current_balance =
              SumAmounts(LedgerView(s), u, {"CREDIT"})
              - SumAmounts(LedgerView(s), u, {"DEBIT"})

\* a refund was committed
C12_Witness ==
    \E u \in Users :
        /\ SumAmounts(ledger, u, {"REFUND"}) > 0
        /\ users[u].current_balance = SeedBalance

\* the LOCK entries of user u no DEBIT or REFUND entry has resolved
OutstandingLocks(entries, u) ==
    {i \in DOMAIN entries :
        /\ entries[i].user_id = u
        /\ entries[i].transaction_type = "LOCK"
        /\ ~ \E j \in DOMAIN entries :
               /\ entries[j].transaction_id = entries[i].transaction_id
               /\ entries[j].transaction_type \in {"DEBIT", "REFUND"}}

RECURSIVE SumAt(_, _)
SumAt(entries, idx) ==
    IF idx = {} THEN 0
    ELSE LET i == CHOOSE k \in idx : TRUE
         IN entries[i].amount + SumAt(entries, idx \ {i})

\* C13: the cached locked_balance is the sum of the amounts of the user's
\* LOCK entries whose transaction id has no DEBIT or REFUND entry yet
C13_LockedIsOutstandingLocks ==
    \A u \in Users :
        users[u].locked_balance =
            SumAt(ledger, OutstandingLocks(ledger, u))

\* the daily cap of 5000 rupees in minor units, as the claims state it
DailyCapPaise == 500000

\* the reason a rejection must carry, by the order cap, balance, daily limit
FirstFailingRule(p) ==
    IF p.amount > CapPaise THEN "Amount exceeds maximum"
    ELSE IF p.amount > p.current_balance - p.locked_balance
    THEN "Insufficient balance"
    ELSE IF p.daily_spent + p.amount > DailyCapPaise
    THEN "Daily spending limit would be exceeded"
    ELSE "none"

\* C15: validate_transaction answers valid iff the amount is within the
\* cap, within current - locked, and within the daily limit once added to
\* what was spent today; when invalid the reason is that of the first rule
\* that fails, in the order cap, balance, daily limit
C15_ValidateTransaction ==
    reply.op = "validate_transaction" =>
        /\ reply.valid <=>
              /\ probe.amount <= CapPaise
              /\ probe.amount <= probe.current_balance - probe.locked_balance
              /\ probe.daily_spent + probe.amount <= DailyCapPaise
        /\ reply.error = FirstFailingRule(probe)

\* 1000 rupees with 4500 spent today and a balance of 10000: 'daily'
C15_Witness ==
    /\ reply.op = "validate_transaction"
    /\ probe.amount = 100000
    /\ probe.daily_spent = 450000
    /\ probe.current_balance - probe.locked_balance = 1000000
    /\ ~reply.valid
    /\ reply.error = "Daily spending limit would be exceeded"

\* the thresholds 0.85 and 0.90 in thousandths, as the claims state them
ClarifyBelow == 850
RefuseBelow == 900

\* C16: needs_clarification is true iff confidence_score < 0.85, and
\* should_refuse is true iff confidence_score < 0.90 and the intent is
\* UNKNOWN
C16_ConfidenceGates ==
    /\ reply.op = "needs_clarification" =>
          (reply.valid <=> probe.intent.confidence_score < ClarifyBelow)
    /\ reply.op = "should_refuse" =>
          (reply.valid <=>
              /\ probe.intent.confidence_score < RefuseBelow
              /\ probe.intent.intent_type = "UNKNOWN")

\* exactly 0.85 asks for no clarification
C16_Witness ==
    /\ reply.op = "needs_clarification"
    /\ probe.intent.confidence_score = 850
    /\ ~reply.valid

\* ---------------------------------------------------- conversation claims
MoneyCalls == {"check_and_lock", "confirm_debit", "auto_refund", "add_credit"}

\* C14: an order whose total would take the amount debited that day above
\* the daily cap is rejected in the wallet validation step of process_intent
\* and reaches no confirmation, and the amount debited in a day never
\* exceeds the cap (all of a behaviour happens within one day)
C14_DailyCapEnforced ==
    [][/\ \A s \in Sessions :
             LET u == reply'.user
                 i == reply'.intent
                 q == reply'.quote
             IN
             (/\ ProcessIntent(s, u, i, q)
              /\ "validate_transaction" \in reply'.calls
              /\ SumAmounts(LedgerView(s), u, {"DEBIT"}) + q.total_price
                     > DailyCapPaise)
             => /\ ~reply'.success
                /\ ~reply'.requires_confirmation
                /\ pending'[s] = NoContext
       /\ \A u \in Users :
             SumAmounts(ledger', u, {"DEBIT"}) <= DailyCapPaise]_vars

\* C17: when should_refuse(intent) holds, process_intent answers with the
\* safe-refusal sentence, success false and no confirmation asked, and has
\* called neither the medicine resolver nor the pharmacy nor the wallet
C17_SafeRefusal ==
    [][\A s \in Sessions :
          LET u == reply'.user
              i == reply'.intent
              q == reply'.quote
          IN
          (ProcessIntent(s, u, i, q) /\ should_refuse(i))
          => /\ reply'.voice_response = "SAFE_REFUSAL"
             /\ ~reply'.success
             /\ ~reply'.requires_confirmation
             /\ reply'.calls = {}
             /\ pending'[s] = NoContext
             /\ WalletUnchanged]_vars

\* an UNKNOWN intent of confidence 0.899 was refused
C17_Witness ==
    /\ reply.op = "process_intent"
    /\ reply.intent.intent_type = "UNKNOWN"
    /\ reply.intent.confidence_score = 899
    /\ reply.voice_response = "SAFE_REFUSAL"
    /\ ~reply.requires_confirmation
    /\ reply.calls = {}

\* C18: an UNKNOWN intent whose emergency_detected flag is set gets the
\* emergency-redirect sentence at any confidence score, and the
\* unsupported-action sentence goes only to UNKNOWN intents without the flag
C18_EmergencyRedirect ==
    [][\A s \in Sessions :
          LET u == reply'.user
              i == reply'.intent
              q == reply'.quote
          IN
          (ProcessIntent(s, u, i, q) /\ i.intent_type = "UNKNOWN")
          => /\ i.emergency_detected =>
                    reply'.voice_response = "EMERGENCY_REDIRECT"
             /\ reply'.voice_response = "UNSUPPORTED_ACTION" =>
                    ~i.emergency_detected]_vars

ClaimNegativeWords ==
    {<<"n", "o">>,
     <<"n", "a", "h", "i">>,
     <<"n", "a", "a">>,
     <<"c", "a", "n", "c", "e", "l">>,
     <<"m", "a", "t", " ", "k", "a", "r", "o">>,
     <<"r", "u", "k", "o">>}

MatchesAny(words, speech) == \E w \in words : Contains(w, speech)

C23_EventsAppendOnly ==
    [][/\ IsPrefix(events, events')
       /\ \A t \in LogEventTypes, d \in LogData :
             AddEvent(t, d) =>
                /\ Len(events') = Len(events) + 1
                /\ events'[Len(events')].event_type = t]_vars

\* three events of which the first two differ have been appended
C23_Witness ==
    /\ Len(events) = 3
    /\ events[1].event_type # events[2].event_type

\* the claim's 1.5 s, in half seconds
MinSilence == 3

\* where the run of silent chunks that ends the chunks fed begins
SilentRunStart(fed) ==
    CHOOSE k \in 1..Len(fed) :
        /\ \A i \in k..Len(fed) : fed[i].is_silence
        /\ k = 1 \/ ~fed[k - 1].is_silence

\* how long the run of silence that the last chunk belongs to has lasted
RunLasted(fed) ==
    IF fed[Len(fed)].is_silence
    THEN fed[Len(fed)].t - fed[SilentRunStart(fed)].t
    ELSE 0

\* C24: process_chunk signals is_complete exactly when the chunk is silent,
\* speech was fed since the last reset and the unbroken run of silence the
\* chunk belongs to has lasted at least 1.5 s; the silence reported is the
\* length of that run, which a non-silent chunk puts back to zero
C24_SilenceCompletion ==
    LET fed == detector.fed
    IN fed # <<>> =>
          /\ detector.result.is_complete =
                (/\ fed[Len(fed)].is_silence
                 /\ \E i \in DOMAIN fed : ~fed[i].is_silence
                 /\ RunLasted(fed) >= MinSilence)
          /\ detector.result.silence_duration = RunLasted(fed)

\* silence, then speech, then a run of silence that completes the turn
C24_Witness ==
    /\ detector.result.is_complete
    /\ Len(detector.fed) >= 3
    /\ detector.fed[1].is_silence

\* C28: a place_order of the mock pharmacy that answers success=false leaves
\* the stock of every catalog entry and the stored orders as they were
C28_FailedOrderNoSideEffects ==
    [][\A outage \in BOOLEAN, items \in ItemLists, id \in MockOrderIds :
          (MockPlaceOrder(outage, items, id) /\ ~pharmacy'.result.success)
          => /\ pharmacy'.stock = pharmacy.stock
             /\ pharmacy'.orders = pharmacy.orders]_vars

\* the configured silence threshold of the claim, in half seconds
StopAfter == 3

\* the chunks of a stream as fed chunks
AsFed(chunks) ==
    [i \in DOMAIN chunks |-> Fed(chunks[i].t, chunks[i].kind = "silence")]

\* C30: process_audio_stream leaves the loop on silence only when speech was
\* observed in the stream and the silence after it has reached the
\* threshold; a stream without audio is answered with an empty,
\* zero-confidence, incomplete result and no call to the backend
C30_StopsAfterSpeechOnly ==
    /\ voice.broke =>
          /\ \E i \in DOMAIN voice.chunks : voice.chunks[i].kind = "speech"
          /\ RunLasted(AsFed(voice.chunks)) >= StopAfter
    /\ (voice.phase = "done" /\ ~HasAudio(voice.chunks)) =>
          /\ voice.result = TranscriptionResult("", 0, FALSE)
          /\ voice.stt_calls = 0

\* C27: when check_and_lock raises InsufficientBalanceError inside
\* execute_confirmed_order the run returns the insufficient-balance
\* sentence with success=false; the pharmacy is not called, nothing is
\* debited or refunded, no balance and no ledger row changes, and the Order
\* row stays PENDING
C27_InsufficientAtExecution ==
    /\ [](\A s \in Sessions :
            Has(run[s].trace, "lock_insufficient") =>
               /\ run[s].trace = <<"lock_insufficient">>
               /\ pc[s] = "returned"
               /\ run[s].result.returned
               /\ ~run[s].result.success
               /\ run[s].result.voice_response = "INSUFFICIENT_BALANCE"
               /\ run[s].pharmacy = "none"
               /\ run[s].transaction_id = NoTxn
               /\ run[s].execution_status = "PENDING"
               /\ View(s, run[s].user) = run[s].pre)
    /\ [][\A s \in Sessions :
            (OrderLock(s) /\ ev'.outcome = "InsufficientBalanceError")
            => WalletUnchanged]_vars

\* an order of 600 rupees confirmed against 1000 rupees, executed after
\* another order had taken 600 of them
C27_Witness ==
    \E s \in Sessions :
        /\ pc[s] = "returned"
        /\ run[s].trace = <<"lock_insufficient">>
        /\ run[s].total = 60000
        /\ run[s].avail0 = SeedBalance
        /\ run[s].pre = Row(SeedBalance - 60000, 0)

\* the event that tells of a step of the run
StepEvent(step) ==
    CASE step = "lock_ok" -> "WALLET_LOCKED"
      [] step = "place_success" -> "ORDER_PLACED"
      [] step = "place_failed" -> "ORDER_FAILED"
      [] step = "debit_ok" -> "WALLET_DEBITED"
      [] step = "refund_ok" -> "WALLET_REFUNDED"
      [] OTHER -> "none"

\* the events of the steps that took effect, in the order of the steps
Replay(trace) ==
    LET told == SelectSeq(trace, LAMBDA step : StepEvent(step) # "none")
    IN [i \in DOMAIN told |-> StepEvent(told[i])]

EventTypes(log) == [i \in DOMAIN log |-> log[i].event_type]

\* C29: the call log of a run of execute_confirmed_order that has returned
\* holds one event for each step that took effect, in the order in which
\* the steps were performed, and at no time a WALLET_DEBITED or
\* WALLET_REFUNDED event without the debit or refund having been made
C29_LogReplaysRun ==
    \A s \in Sessions :
        /\ pc[s] = "returned" =>
              EventTypes(run[s].log) = Replay(run[s].trace)
        /\ Count(EventTypes(run[s].log), {"WALLET_DEBITED"}) <=
              Count(run[s].trace, {"debit_ok"})
        /\ Count(EventTypes(run[s].log), {"WALLET_REFUNDED"}) <=
              Count(run[s].trace, {"refund_ok"})

\* ---------------------------------------------------------- channel claims
\* what the messaging channel must never call
OrderCalls == MoneyCalls \cup {"process_intent", "execute_confirmed_order"}

\* C22: whatever the inbound message (text, voice note, unsupported type,
\* unregistered sender, malformed payload), the messaging handler calls
\* neither process_intent nor execute_confirmed_order nor a wallet
\* operation, and balances, ledger and orders stay as they were
C22_MessagingMovesNoMoney ==
    [][(pc[LedgerSession] = "idle" /\ reply'.op = "handle_whatsapp_message")
       => /\ reply'.calls \cap OrderCalls = {}
          /\ WalletUnchanged
          /\ UNCHANGED <<run, nOrders, nextTxn>>]_vars

\* a registered sender's text asking for medicine was parsed and answered
C22_Witness ==
    /\ reply.op = "handle_whatsapp_message"
    /\ reply.status = "processed"
    /\ reply.request.type = "text"
    /\ reply.llm.called
    /\ reply.intent.intent_type = "ORDER_MEDICINE"
    /\ reply.intent.confidence_score = 900

\* C25: the transcript placed in the prompt sent to the reasoning service is
\* the redacted form of what the caller said or wrote, on every channel
C25_PromptIsRedacted ==
    reply.llm.called
        => reply.llm.transcript = redact(reply.request.transcript)

\* the context a channel builds for a users row
ContextOf(op, p) ==
    IF op = "process_voice_input" THEN twilio_build_user_context(p)
    ELSE IF op = "simulate_call" THEN simulate_call_user_context(p)
    ELSE whatsapp_build_user_context(p)

\* the users rows that differ from p in name, phone and address at most
SameButPersonal(p) ==
    {q \in Profiles : /\ q.internal_id = p.internal_id
                      /\ q.medicine_history = p.medicine_history}

\* C26: the context handed to parse_intent has the internal id and the
\* medicine history and neither name, phone nor address, so users rows that
\* differ in name, phone and address only give the same context and the
\* same prompt for the same transcript
C26_ContextHasNoPersonalData ==
    reply.llm.called
        => /\ reply.llm.user_context.address = "absent"
           /\ reply.llm.user_context.full_address = <<>>
           /\ \A q \in SameButPersonal(reply.request.profile) :
                  build_prompt(reply.request.transcript, ContextOf(reply.op, q))
                      = reply.llm

\* C21: a speech turn whose intent process_intent answers with a request
\* for confirmation ends with that result and leaves its confirmation
\* context stored under the call id, and an affirmative reply on a call
\* with a stored context calls execute_confirmed_order with that context
C21_ConfirmationContextKept ==
    /\ [][(pc[LedgerSession] = "idle" /\ reply'.op = "process_voice_input")
          => LET turn == [intent |-> reply'.intent, quote |-> reply'.quote]
                 due == voice_turn(reply'.request, turn,
                                   get_balance(LedgerSession, reply'.user),
                                   LedgerView(LedgerSession))
             IN due.requires_confirmation
                   => /\ reply'.requires_confirmation
                      /\ reply'.context = due.context
                      /\ sessionStore'[reply'.request.call_sid]
                             = due.context]_vars
    /\ [][(/\ pc[LedgerSession] = "idle"
           /\ reply'.op = "handle_confirmation"
           /\ is_confirmed(Lower(reply'.said.speech), reply'.said.digits)
           /\ sessionStore[reply'.said.call_sid] # NoContext)
          => "execute_confirmed_order" \in reply'.calls]_vars

\* --------------------------------------------------- clarification claims
\* the results that were confident enough
Confident(results) ==
    {i \in DOMAIN results : results[i].confidence >= ClarifyBelow}

\* C31: clarify calls process_audio_stream at most max_attempts (3) times;
\* it returns the text of the first result at 0.85 or above, which is the
\* last result it asked for, and returns None exactly when it has asked
\* three times and every result was below 0.85
C31_ClarifyStopsAndReturns ==
    /\ Len(flow.results) <= 3
    /\ flow.returned = "text"
          => /\ Confident(flow.results) = {Len(flow.results)}
             /\ flow.value = flow.results[Len(flow.results)].text
    /\ flow.returned = "None"
          => /\ Len(flow.results) = 3
             /\ Confident(flow.results) = {}
    /\ flow.returned = "running"
          => /\ Len(flow.results) < 3
             /\ Confident(flow.results) = {}

\* two results below the threshold, then one at exactly 0.85
C31_Witness ==
    /\ flow.returned = "text"
    /\ Len(flow.results) = 3
    /\ flow.results[3].confidence = 850
    /\ flow.results[2].confidence = 849

\* ----------------------------------------------------------- route claims
\* the CREDIT rows of the committed ledger
Credits(l) == {i \in DOMAIN l : l[i].transaction_type = "CREDIT"}

\* C32: a top-up rejected with 404 (nobody is registered under the number)
\* or 403 (a caregiver number was supplied and is not the one on file)
\* changes neither wallet nor ledger; an accepted top-up of R rupees adds
\* R * 100 to the user's current_balance, leaves locked_balance as it was,
\* appends exactly one CREDIT entry and reports the new balance
C32_TopUpCreditsOnce ==
    [][(pc[TopUpSession] = "idle" /\ reply'.op = "add_money_to_wallet")
       => LET req == reply'.topup
              u == user_by_phone(normalize_phone(req.phone_number))
          IN IF reply'.error # "none"
             THEN /\ reply'.error \in {"HTTP 404", "HTTP 403"}
                  /\ WalletUnchanged
             ELSE /\ u \in Users
                  /\ users'[u].current_balance
                        = users[u].current_balance + req.amount * 100
                  /\ users'[u].locked_balance = users[u].locked_balance
                  /\ \A v \in Users \ {u} : users'[v] = users[v]
                  /\ Len(ledger') = Len(ledger) + 1
                  /\ IsPrefix(ledger, ledger')
                  /\ ledger'[Len(ledger')].transaction_type = "CREDIT"
                  /\ ledger'[Len(ledger')].user_id = u
                  /\ ledger'[Len(ledger')].amount = req.amount * 100
                  /\ reply'.new_balance * 100
                        = users'[u].current_balance]_vars

\* 500 rupees were added for a user who has money locked, by a caregiver
\* who wrote the number on file with spaces and without the country code
C32_Witness ==
    /\ reply.op = "add_money_to_wallet"
    /\ reply.success
    /\ reply.topup.amount = 500
    /\ reply.topup.caregiver_phone = Phone("", <<"caregiver", 1>>, TRUE)
    /\ users[1].locked_balance > 0
    /\ users[1].current_balance = SeedBalance + 50000

\* a top-up was refused because of the caregiver number
C32_WitnessRefused ==
    /\ reply.op = "add_money_to_wallet"
    /\ reply.error = "HTTP 403"

\* C33: parse_intent never raises; when the reasoning service is not set
\* up, or its call or the reading of its answer fails (malformed JSON, rate
\* limit, invalid credential, unavailable model, schema violation), the
\* intent is UNKNOWN at confidence 0, and process_intent ends the turn with
\* the safe refusal and calls neither pharmacy nor wallet
C33_FailureIsSafeRefusal ==
    (/\ reply.op = "simulate_call"
     /\ reply.request.registered
     /\ reply.request.provider # "ok")
        => /\ reply.error = "none"
           /\ pc[LedgerSession] = "answered"
           /\ reply.parsed.intent_type = "UNKNOWN"
           /\ reply.parsed.confidence_score = 0
           /\ reply.voice_response = "SAFE_REFUSAL"
           /\ ~reply.success
           /\ ~reply.requires_confirmation
           /\ reply.calls = {"parse_intent", "process_intent"}

\* the service answered an order at 0.9 that does not fit the schema
C33_Witness ==
    /\ reply.op = "simulate_call"
    /\ reply.request.provider = "schema_violation"
    /\ reply.intent.intent_type = "ORDER_MEDICINE"
    /\ reply.intent.confidence_score = 900
    /\ reply.quote.available
    /\ reply.voice_response = "SAFE_REFUSAL"

\* ----------------------------------------------------- notification claims
\* C34: once execute_confirmed_order has returned success for an order, an
\* order confirmation for it has been handed to the notification service
\* for the user, and for the caregiver when one is on file
C34_SuccessIsNotified ==
    \A s \in Sessions :
        (pc[s] = "returned" /\ run[s].result.success)
            => /\ [to |-> phone_number(run[s].user),
                   order_number |-> run[s].order_number] \in outbox
               /\ caregiver_phone(run[s].user) # NoPhone
                     => [to |-> caregiver_phone(run[s].user),
                         order_number |-> run[s].order_number] \in outbox

\* ------------------------------------------------------- settlement claims
\* C35: confirm_debit and auto_refund for a transaction id under which the
\* given user has no LOCK entry (an id never issued, or the lock of another
\* user) fail with the not-found WalletError and change nothing: no entry
\* is appended and no user's balances change
C35_NoLockNoChange ==
    [][\A s \in Sessions, u \in Users, t \in TxnIds :
          ((WalletConfirmDebit(s, t, u) \/ WalletAutoRefund(s, t, u))
             /\ LockAmounts(s, t, u) = {})
          => /\ ev'.outcome = "WalletError"
             /\ WalletUnchanged]_vars

\* a debit was asked for one user under the lock of another
C35_Witness ==
    /\ ev.op = "confirm_debit"
    /\ ev.outcome = "WalletError"
    /\ \E i \in DOMAIN LedgerView(ev.sess) :
          /\ LedgerView(ev.sess)[i].transaction_id = ev.txn
          /\ LedgerView(ev.sess)[i].transaction_type = "LOCK"
          /\ LedgerView(ev.sess)[i].user_id # ev.user

\* the transaction ids session s sees a DEBIT or REFUND entry for
Settled(s) ==
    {LedgerView(s)[i].transaction_id : i \in {k \in DOMAIN LedgerView(s) :
        LedgerView(s)[k].transaction_type \in {"DEBIT", "REFUND"}}}

\* C37: once a DEBIT or REFUND entry exists for a transaction id, a further
\* confirm_debit or auto_refund with that id changes no current_balance
\* and no locked_balance and appends no entry
C37_SettledAtMostOnce ==
    [][\A s \in Sessions, u \in Users, t \in TxnIds :
          ((WalletConfirmDebit(s, t, u) \/ WalletAutoRefund(s, t, u))
             /\ t \in Settled(s))
          => WalletUnchanged]_vars

\* --------------------------------------------------- unit of work claims
\* session s holds no row lock and no unflushed row or entry
Released(s) ==
    /\ \A u \in Users : rowLock'[u] # s
    /\ wentries'[s] = <<>>
    /\ pc'[s] = "idle"

Settlements(s, txn, type) ==
    {i \in DOMAIN LedgerView(s) :
        /\ LedgerView(s)[i].transaction_id = txn
        /\ LedgerView(s)[i].transaction_type = type}

\* C38: a run of execute_confirmed_order whose lock succeeded has, when it
\* returns, exactly one DEBIT or REFUND entry for its transaction id,
\* whatever failed after the lock, and a run that refunded has not debited
\* an order the pharmacy accepted
C38_ExactlyOneSettlement ==
    \A s \in Sessions :
        (pc[s] = "returned" /\ run[s].transaction_id # NoTxn)
            => LET debits == Settlements(s, run[s].transaction_id, "DEBIT")
                   refunds == Settlements(s, run[s].transaction_id, "REFUND")
               IN /\ Cardinality(debits) + Cardinality(refunds) = 1
                  /\ refunds # {}
                        => ~(run[s].pharmacy = "success" /\ debits # {})

\* ------------------------------------------------------ prototype claims
\* C40: in the prototype the balance is never negative, however many
\* /speak requests run at once: no debit above the cap of 2000 or above
\* the balance is accepted, and every DEBIT row stands for an amount taken
\* from a balance that was at least that amount when it was updated
C40_PrototypeBalanceNeverNegative ==
    /\ proto.balance >= 0
    /\ \A i \in DOMAIN proto.ledger :
          /\ proto.ledger[i].amount <= 2000
          /\ proto.ledger[i].amount <= proto.ledger[i].before
====
